---- MODULE Spec2Model ----
(***************************************************************************)
(* Mobile project -> APK pipeline: ProjectAnalyzer.analyzeProject followed *)
(* by ApkBuilder.buildApk, over an abstract project tree.                  *)
(*                                                                         *)
(* A relative path is a sequence of tokens with "/" as an explicit token,  *)
(* so that String.includes (substring) and fileExists (exact path) stay    *)
(* different things: <<"app","/","build.gradle">> is included in           *)
(* <<"android","/","app","/","build.gradle">> but is not the same file.    *)
(***************************************************************************)
EXTENDS Integers, Sequences, FiniteSets, TLC

\* ------------------------------------------------------------------ bounds
\* largest number of files in the uploaded project tree
MaxFiles == 3

\* largest number of files removed from the tree between analysis and build
MaxDeletes == 1

\* ------------------------------------------------------------- path algebra
\* String.prototype.includes on token sequences
Includes(p, n) ==
  \E i \in 0..(Len(p) - Len(n)) : \A j \in 1..Len(n) : p[i + j] = n[j]

\* String.prototype.endsWith for a file extension token
EndsWith(p, ext) ==
  Len(p) > 0 /\ p[Len(p)] = ext

\* path.dirname: everything before the last "/" (<<>> is the project root)
RECURSIVE Dirname(_)
Dirname(p) ==
  IF Len(p) = 0 THEN << >>
  ELSE IF p[Len(p)] = "/" THEN SubSeq(p, 1, Len(p) - 1)
  ELSE Dirname(SubSeq(p, 1, Len(p) - 1))

\* a directory and all its ancestors below the root (mkdir -p)
RECURSIVE DirChain(_)
DirChain(d) ==
  IF Len(d) = 0 THEN {} ELSE {d} \cup DirChain(Dirname(d))

\* the directories that exist because files live in them
DirsOf(files) ==
  UNION {DirChain(Dirname(f)) : f \in files}

\* elements of a sequence
Range(s) == {s[i] : i \in 1..Len(s)}

\* Array.prototype.filter, order preserving
RECURSIVE SelectSeqBy(_, _)
SelectSeqBy(s, keep) ==
  IF Len(s) = 0 THEN << >>
  ELSE IF Head(s) \in keep THEN <<Head(s)>> \o SelectSeqBy(Tail(s), keep)
  ELSE SelectSeqBy(Tail(s), keep)

\* --------------------------------------------------------- the project tree
PackageJson      == <<"package.json">>
SubPackageJson   == <<"react-native", "/", "package.json">>
MetroConfig      == <<"metro.config", ".js">>
IndexJs          == <<"index", ".js">>
PubspecYaml      == <<"pubspec.yaml">>
MainDart         == <<"lib", "/", "main.dart">>
RootGradle       == <<"build.gradle">>
AppGradle        == <<"app", "/", "build.gradle">>
AppManifest      == <<"app", "/", "src", "/", "main", "/", "AndroidManifest.xml">>
SrcManifest      == <<"src", "/", "main", "/", "AndroidManifest.xml">>
AndroidGradle    == <<"android", "/", "build.gradle">>
AndroidAppGradle == <<"android", "/", "app", "/", "build.gradle">>
ConfigXml        == <<"config.xml">>
WwwIndexHtml     == <<"www", "/", "index.html">>
WwwConfigXml     == <<"www", "/", "config.xml">>
IndexHtml        == <<"index.html">>
AppJs            == <<"app", ".js">>
MainJs           == <<"main", ".js">>
RootMainDart     == <<"main.dart">>
MainKt           == <<"Main", ".kt">>
MainJava         == <<"Main", ".java">>
FlutterAsset     == <<"assets", "/", "logo.png">>
NodeModulesPkg   == <<"node_modules", "/", "react-native", "/", "package.json">>

\* files an uploaded archive may contain
Universe ==
  { PackageJson, SubPackageJson, MetroConfig, IndexJs, PubspecYaml, MainDart,
    RootGradle, AppGradle, SrcManifest, AppManifest, ConfigXml, WwwIndexHtml,
    WwwConfigXml, IndexHtml, MainKt, MainJava, FlutterAsset, NodeModulesPkg }

\* output location of the archive, relative to the project root
ApkDir  == <<"build", "/", "outputs", "/", "apk", "/", "release">>
ApkPath == ApkDir \o <<"/", "app-release.apk">>

\* value of the analysis and detection variables before analyzeProject ran
NoAnalysis == [framework |-> "none"]

\* ------------------------------------------------------------ ProjectAnalyzer
\* recursion limit of the walker
MaxDepth == 10

\* directories the walker does not descend into
IgnoredDirs == {"node_modules", ".git", ".cache"}

\* number of directory levels above a file
Depth(p) == Cardinality({i \in 1..Len(p) : p[i] = "/"})

\* the file lies below a directory the walker skips
Ignored(p) ==
  \E i \in 1..Len(p) :
    /\ p[i] \in IgnoredDirs
    /\ i < Len(p) /\ p[i + 1] = "/"
    /\ (i = 1 \/ p[i - 1] = "/")

\* getAllFiles: the files the recursive walk lists
getAllFiles(files) ==
  {f \in files : ~Ignored(f) /\ Depth(f) <= MaxDepth}

\* files.some(f => f.includes(needle))
SomeIncludes(files, needle) == \E f \in files : Includes(f, needle)

\* detectFramework with the flutter test moved in front of the react-native
\* test
detectFrameworkFlutterFirst(files) ==
  IF SomeIncludes(files, <<"pubspec.yaml">>)
  THEN [framework |-> "flutter", language |-> "dart", projectType |-> "hybrid"]
  ELSE IF /\ SomeIncludes(files, <<"package.json">>)
          /\ \E f \in files : Includes(f, <<"react-native">>) \/ Includes(f, <<"metro.config">>)
  THEN [framework |-> "react-native", language |-> "javascript", projectType |-> "hybrid"]
  ELSE IF \E f \in files : Includes(f, <<"build.gradle">>) \/ Includes(f, <<"AndroidManifest.xml">>)
  THEN [framework |-> "android",
        language |-> IF \E f \in files : EndsWith(f, ".kt") THEN "kotlin"
                     ELSE IF \E f \in files : EndsWith(f, ".java") THEN "java"
                     ELSE "unknown",
        projectType |-> "native"]
  ELSE IF \E f \in files : Includes(f, <<"config.xml">>) /\ Includes(f, <<"www">>)
  THEN [framework |-> "cordova", language |-> "javascript", projectType |-> "hybrid"]
  ELSE [framework |-> "unknown", language |-> "unknown", projectType |-> "unknown"]

\* detectFramework without its final return: a list that matches no rule
\* yields no tag
detectFrameworkNoDefault(files) ==
  IF /\ SomeIncludes(files, <<"package.json">>)
     /\ \E f \in files : Includes(f, <<"react-native">>) \/ Includes(f, <<"metro.config">>)
  THEN [framework |-> "react-native", language |-> "javascript", projectType |-> "hybrid"]
  ELSE IF SomeIncludes(files, <<"pubspec.yaml">>)
  THEN [framework |-> "flutter", language |-> "dart", projectType |-> "hybrid"]
  ELSE IF \E f \in files : Includes(f, <<"build.gradle">>) \/ Includes(f, <<"AndroidManifest.xml">>)
  THEN [framework |-> "android",
        language |-> IF \E f \in files : EndsWith(f, ".kt") THEN "kotlin"
                     ELSE IF \E f \in files : EndsWith(f, ".java") THEN "java"
                     ELSE "unknown",
        projectType |-> "native"]
  ELSE IF \E f \in files : Includes(f, <<"config.xml">>) /\ Includes(f, <<"www">>)
  THEN [framework |-> "cordova", language |-> "javascript", projectType |-> "hybrid"]
  ELSE [framework |-> "undefined", language |-> "undefined", projectType |-> "undefined"]

\* detectFramework: ordered decision list, first match wins
detectFramework(files) ==
  IF /\ SomeIncludes(files, <<"package.json">>)
     /\ \E f \in files : Includes(f, <<"react-native">>) \/ Includes(f, <<"metro.config">>)
  THEN [framework |-> "react-native", language |-> "javascript", projectType |-> "hybrid"]
  ELSE IF SomeIncludes(files, <<"pubspec.yaml">>)
  THEN [framework |-> "flutter", language |-> "dart", projectType |-> "hybrid"]
  ELSE IF \E f \in files : Includes(f, <<"build.gradle">>) \/ Includes(f, <<"AndroidManifest.xml">>)
  THEN [framework |-> "android",
        language |-> IF \E f \in files : EndsWith(f, ".kt") THEN "kotlin"
                     ELSE IF \E f \in files : EndsWith(f, ".java") THEN "java"
                     ELSE "unknown",
        projectType |-> "native"]
  ELSE IF \E f \in files : Includes(f, <<"config.xml">>) /\ Includes(f, <<"www">>)
  THEN [framework |-> "cordova", language |-> "javascript", projectType |-> "hybrid"]
  ELSE [framework |-> "unknown", language |-> "unknown", projectType |-> "unknown"]

\* requiredFiles.filter(file => !files.some(f => f.includes(file)))
MissingOf(required, files) ==
  SelectSeqBy(required, {r \in Range(required) : ~SomeIncludes(files, r)})

\* extractGradleValue(...) || dflt : -1 stands for "no token matched"
SdkOr(extracted, dflt) ==
  IF extracted = -1 \/ extracted = 0 THEN dflt ELSE extracted

\* what readFile + extractGradleValue find in a gradle file
GradleRead(gradle, path) ==
  IF path \in DOMAIN gradle THEN gradle[path] ELSE [target |-> -1, min |-> -1]

\* projectStats.targetSdk / minSdk: set only when the app-level gradle file
\* exists (-1 stands for undefined)
SdkStats(exists, g) ==
  IF exists THEN [targetSdk |-> SdkOr(g.target, 33), minSdk |-> SdkOr(g.min, 21)]
  ELSE [targetSdk |-> -1, minSdk |-> -1]

\* buildConfig.targetSdk / minSdk: the defaults, overwritten by the stats
SdkConfig(exists, g) ==
  IF exists THEN SdkStats(exists, g) ELSE [targetSdk |-> 33, minSdk |-> 21]

\* what the text files the analyzers parse may contain
\*   package.json: "json" parses, "garbage" makes JSON.parse throw
\*   pubspec.yaml: "named" has name: and version: lines, "bare" has neither
\*   config.xml:   "named" has <name> and version="..", "bare" has neither
TextContents(f) ==
  CASE f = PackageJson -> {"json", "garbage"}
    [] f = PubspecYaml -> {"named", "bare"}
    [] f = ConfigXml   -> {"named", "bare"}

\* the files whose text the analyzers parse
ParsedFiles == {PackageJson, PubspecYaml, ConfigXml}

\* the app name and version a "named" pubspec.yaml or config.xml carries
NamedApp     == "Demo"
NamedVersion == "2.0.0"

\* `com.flutter.${name.trim().toLowerCase().replace(/[^a-z0-9]/g, '')}`
FlutterPackage(name) == <<"com", "flutter", IF name = "Demo" THEN "demo" ELSE name>>

\* the gradle block shared by analyzeReactNative and analyzeAndroid: a read
\* that raises leaves the stats undefined and the buildConfig defaults in place
GradleErrors(has, fault, message) ==
  IF has /\ fault = "readFile" THEN <<message>> ELSE << >>

analyzeReactNative(files, disk, gradle, texts, fault) ==
  LET has  == AndroidAppGradle \in disk
      g    == GradleRead(gradle, AndroidAppGradle)
      read == has /\ fault # "readFile"
      missing == MissingOf(<<PackageJson, AndroidGradle, AndroidAppGradle>>, files)
  IN IF fault = "fileExists"
     THEN [ missingFiles |-> missing,
            buildConfig  |-> [hasPackageJson |-> FALSE, hasBuildGradle |-> FALSE,
                              targetSdk |-> 33, minSdk |-> 21],
            sdk |-> SdkStats(FALSE, g), sourceFiles |-> 0, errors |-> << >>, threw |-> TRUE ]
     ELSE [ missingFiles |-> missing,
            buildConfig  |-> [hasPackageJson |-> PackageJson \in disk, hasBuildGradle |-> has]
                             @@ SdkConfig(read, g),
            sdk          |-> SdkStats(read, g),
            sourceFiles  |-> Cardinality({f \in files : EndsWith(f, ".js") \/ EndsWith(f, ".jsx")
                                                       \/ EndsWith(f, ".ts") \/ EndsWith(f, ".tsx")}),
            errors       |-> (IF PackageJson \in disk
                                 /\ (fault = "readFile" \/ texts[PackageJson] = "garbage")
                              THEN <<"Failed to parse package.json">> ELSE << >>)
                             \o GradleErrors(has, fault, "Failed to parse Android build.gradle"),
            threw        |-> FALSE ]

analyzeFlutter(files, disk, gradle, texts, fault) ==
  LET missing == MissingOf(<<PubspecYaml, AndroidGradle, MainDart>>, files)
      named   == PubspecYaml \in disk /\ fault # "readFile" /\ texts[PubspecYaml] = "named"
  IN IF fault = "fileExists"
     THEN [ missingFiles |-> missing,
            buildConfig  |-> [hasPubspec |-> FALSE, hasBuildGradle |-> FALSE,
                              targetSdk |-> 33, minSdk |-> 21],
            sdk |-> SdkStats(FALSE, GradleRead(gradle, AndroidAppGradle)),
            sourceFiles |-> 0, errors |-> << >>, threw |-> TRUE ]
     ELSE [ missingFiles |-> missing,
            buildConfig  |-> (IF named
                              THEN [appName |-> NamedApp, packageName |-> FlutterPackage(NamedApp),
                                    version |-> NamedVersion]
                              ELSE << >>)
                             @@ [hasPubspec |-> PubspecYaml \in disk,
                                 hasBuildGradle |-> AndroidAppGradle \in disk,
                                 targetSdk |-> 33, minSdk |-> 21],
            sdk          |-> SdkStats(FALSE, GradleRead(gradle, AndroidAppGradle)),
            sourceFiles  |-> Cardinality({f \in files : EndsWith(f, ".dart")}),
            errors       |-> IF PubspecYaml \in disk /\ fault = "readFile"
                             THEN <<"Failed to parse pubspec.yaml">> ELSE << >>,
            threw        |-> FALSE ]

analyzeAndroid(files, disk, gradle, texts, fault) ==
  LET has  == AppGradle \in disk
      g    == GradleRead(gradle, AppGradle)
      read == has /\ fault # "readFile"
      missing == MissingOf(<<RootGradle, AppGradle, AppManifest>>, files)
  IN IF fault = "fileExists"
     THEN [ missingFiles |-> missing,
            buildConfig  |-> [hasBuildGradle |-> FALSE, hasManifest |-> FALSE,
                              targetSdk |-> 33, minSdk |-> 21],
            sdk |-> SdkStats(FALSE, g), sourceFiles |-> 0, errors |-> << >>, threw |-> TRUE ]
     ELSE [ missingFiles |-> missing,
            buildConfig  |-> [hasBuildGradle |-> has, hasManifest |-> AppManifest \in disk]
                             @@ SdkConfig(read, g),
            sdk          |-> SdkStats(read, g),
            sourceFiles  |-> Cardinality({f \in files : EndsWith(f, ".java") \/ EndsWith(f, ".kt")}),
            errors       |-> GradleErrors(has, fault, "Failed to parse build.gradle"),
            threw        |-> FALSE ]

analyzeCordova(files, disk, gradle, texts, fault) ==
  LET missing == MissingOf(<<ConfigXml, WwwIndexHtml>>, files)
      named   == ConfigXml \in disk /\ fault # "readFile" /\ texts[ConfigXml] = "named"
  IN IF fault = "fileExists"
     THEN [ missingFiles |-> missing,
            buildConfig  |-> [hasConfigXml |-> FALSE, hasWwwFolder |-> FALSE,
                              appName |-> "Mobile App", version |-> "1.0.0"],
            sdk |-> SdkStats(FALSE, GradleRead(gradle, AppGradle)),
            sourceFiles |-> 0, errors |-> << >>, threw |-> TRUE ]
     ELSE [ missingFiles |-> missing,
            buildConfig  |-> [hasConfigXml |-> ConfigXml \in disk,
                              hasWwwFolder |-> <<"www">> \in DirsOf(disk),
                              appName |-> IF named THEN NamedApp ELSE "Mobile App",
                              version |-> IF named THEN NamedVersion ELSE "1.0.0"],
            sdk          |-> SdkStats(FALSE, GradleRead(gradle, AppGradle)),
            sourceFiles  |-> Cardinality({f \in files : EndsWith(f, ".js") \/ EndsWith(f, ".html")
                                                       \/ EndsWith(f, ".css")}),
            errors       |-> IF ConfigXml \in disk /\ fault = "readFile"
                             THEN <<"Failed to parse config.xml">> ELSE << >>,
            threw        |-> FALSE ]

\* analyzeProject whose default branch records the error but leaves the
\* framework tag as detected
analyzeProjectKeepsUnknown(disk, gradle, texts, fault) ==
  LET allFiles == getAllFiles(disk)
      det      == detectFramework(allFiles)
      known    == det.framework \in {"react-native", "flutter", "android", "cordova"}
      sub      == CASE det.framework = "react-native" -> analyzeReactNative(allFiles, disk, gradle, texts, fault)
                    [] det.framework = "flutter"      -> analyzeFlutter(allFiles, disk, gradle, texts, fault)
                    [] det.framework = "android"      -> analyzeAndroid(allFiles, disk, gradle, texts, fault)
                    [] det.framework = "cordova"      -> analyzeCordova(allFiles, disk, gradle, texts, fault)
                    [] OTHER -> [missingFiles |-> << >>, buildConfig |-> << >>,
                                 sdk |-> [targetSdk |-> -1, minSdk |-> -1], sourceFiles |-> 0,
                                 errors |-> <<"Framework not automatically detected - will use generic mobile project setup">>,
                                 threw |-> FALSE]
  IN [ framework         |-> det.framework,
       language          |-> det.language,
       projectType       |-> det.projectType,
       hasValidStructure |-> ~sub.threw /\ sub.errors = << >>,
       missingFiles      |-> sub.missingFiles,
       buildConfig       |-> sub.buildConfig,
       projectStats      |-> [totalFiles |-> Cardinality(allFiles),
                              sourceFiles |-> sub.sourceFiles] @@ sub.sdk,
       errors            |-> IF sub.threw THEN <<"Analysis failed">> ELSE sub.errors ]

\* analyzeProject: walk, classify, run the framework's analyzer; an exception
\* of the analyzer is caught, recorded and leaves hasValidStructure false
analyzeProject(disk, gradle, texts, fault) ==
  LET allFiles == getAllFiles(disk)
      det      == detectFramework(allFiles)
      known    == det.framework \in {"react-native", "flutter", "android", "cordova"}
      sub      == CASE det.framework = "react-native" -> analyzeReactNative(allFiles, disk, gradle, texts, fault)
                    [] det.framework = "flutter"      -> analyzeFlutter(allFiles, disk, gradle, texts, fault)
                    [] det.framework = "android"      -> analyzeAndroid(allFiles, disk, gradle, texts, fault)
                    [] det.framework = "cordova"      -> analyzeCordova(allFiles, disk, gradle, texts, fault)
                    [] OTHER -> [missingFiles |-> << >>, buildConfig |-> << >>,
                                 sdk |-> [targetSdk |-> -1, minSdk |-> -1], sourceFiles |-> 0,
                                 errors |-> <<"Framework not automatically detected - will use generic mobile project setup">>,
                                 threw |-> FALSE]
  IN [ framework         |-> IF known THEN det.framework ELSE "generic-mobile",
       language          |-> det.language,
       projectType       |-> det.projectType,
       hasValidStructure |-> ~sub.threw /\ sub.errors = << >>,
       missingFiles      |-> sub.missingFiles,
       buildConfig       |-> sub.buildConfig,
       projectStats      |-> [totalFiles |-> Cardinality(allFiles),
                              sourceFiles |-> sub.sourceFiles] @@ sub.sdk,
       errors            |-> IF sub.threw THEN <<"Analysis failed">> ELSE sub.errors ]

\* the faults that can make a difference to the analysis of a tree: a
\* framework analyzer calls fileExists, and reads the files it finds
AnalysisFaults(disk) ==
  LET fw == detectFramework(getAllFiles(disk)).framework
      reads == CASE fw = "react-native" -> {PackageJson, AndroidAppGradle}
                 [] fw = "flutter"      -> {PubspecYaml}
                 [] fw = "android"      -> {AppGradle}
                 [] fw = "cordova"      -> {ConfigXml}
                 [] OTHER               -> {}
  IN {"none"} \cup (IF fw = "unknown" THEN {} ELSE {"fileExists"})
              \cup (IF reads \cap disk # {} THEN {"readFile"} ELSE {})

\* ----------------------------------------------------------------- ApkBuilder
\* a buildConfig flag read the JavaScript way: an absent key is falsy
Flag(bc, name) == name \in DOMAIN bc /\ bc[name]

\* validateBuildRequirements whose react-native case forgets its check
validateBuildRequirementsNoRnCheck(a) ==
  CASE a.framework = "react-native" -> << >>
    [] a.framework = "flutter" ->
         IF Flag(a.buildConfig, "hasPubspec") THEN << >>
         ELSE <<"Flutter project missing pubspec.yaml">>
    [] a.framework = "android" ->
         IF Flag(a.buildConfig, "hasBuildGradle") THEN << >>
         ELSE <<"Android project missing build.gradle">>
    [] a.framework = "cordova" ->
         IF Flag(a.buildConfig, "hasConfigXml") THEN << >>
         ELSE <<"Cordova project missing config.xml">>
    [] a.framework = "generic-mobile" -> << >>
    [] OTHER -> <<"Unsupported framework">>

\* validateBuildRequirements without its default case: a tag it does not know
\* yields no error
validateBuildRequirementsNoDefault(a) ==
  CASE a.framework = "react-native" ->
         IF Flag(a.buildConfig, "hasPackageJson") THEN << >>
         ELSE <<"React Native project missing package.json">>
    [] a.framework = "flutter" ->
         IF Flag(a.buildConfig, "hasPubspec") THEN << >>
         ELSE <<"Flutter project missing pubspec.yaml">>
    [] a.framework = "android" ->
         IF Flag(a.buildConfig, "hasBuildGradle") THEN << >>
         ELSE <<"Android project missing build.gradle">>
    [] a.framework = "cordova" ->
         IF Flag(a.buildConfig, "hasConfigXml") THEN << >>
         ELSE <<"Cordova project missing config.xml">>
    [] OTHER -> << >>

\* validateBuildRequirements: consults only the analysis' presence flags
validateBuildRequirements(a) ==
  CASE a.framework = "react-native" ->
         IF Flag(a.buildConfig, "hasPackageJson") THEN << >>
         ELSE <<"React Native project missing package.json">>
    [] a.framework = "flutter" ->
         IF Flag(a.buildConfig, "hasPubspec") THEN << >>
         ELSE <<"Flutter project missing pubspec.yaml">>
    [] a.framework = "android" ->
         IF Flag(a.buildConfig, "hasBuildGradle") THEN << >>
         ELSE <<"Android project missing build.gradle">>
    [] a.framework = "cordova" ->
         IF Flag(a.buildConfig, "hasConfigXml") THEN << >>
         ELSE <<"Cordova project missing config.xml">>
    [] a.framework = "generic-mobile" -> << >>
    [] OTHER -> <<"Unsupported framework">>

\* createMissingFiles writes a template only for these four file names
Creatable(m) ==
  \/ Includes(m, <<"AndroidManifest.xml">>)
  \/ Includes(m, <<"build.gradle">>)
  \/ Includes(m, <<"package.json">>)
  \/ Includes(m, <<"config.xml">>)

\* the files createMissingFiles has written after its first n loop rounds
CreatedFiles(missing, n) ==
  {missing[i] : i \in {j \in 1..n : Creatable(missing[j])}}

\* the directories createMissingFiles has ensured after n loop rounds
EnsuredDirs(missing, n) ==
  UNION {DirChain(Dirname(missing[i])) : i \in 1..n}

\* createPackageJson writes JSON.stringify output; createConfigXml writes a
\* widget with <name>Mobile App</name> and version="1.0.0"
TemplateText(f) == IF f = PackageJson THEN "json" ELSE "template"

\* createBuildGradle: the app-level template carries the analysis' SDK bounds
\* or the defaults; the project-level template carries none
GradleTemplate(a) ==
  [target |-> SdkOr(a.projectStats.targetSdk, 33),
   min    |-> SdkOr(a.projectStats.minSdk, 21)]

\* getEssentialFiles
getEssentialFiles(framework) ==
  CASE framework = "react-native"   -> <<PackageJson, IndexJs>>
    [] framework = "flutter"        -> <<PubspecYaml, MainDart>>
    [] framework = "android"        -> <<RootGradle, SrcManifest>>
    [] framework = "cordova"        -> <<ConfigXml, WwwIndexHtml>>
    [] framework = "generic-mobile" -> << >>
    [] OTHER                        -> << >>

\* validateProjectStructure that returns from inside the loop after the
\* first essential file
validateProjectStructureFirstOnly(files, a, existsThrows) ==
  /\ ~existsThrows
  /\ getEssentialFiles(a.framework) # << >> => getEssentialFiles(a.framework)[1] \in files

\* validateProjectStructure: every essential file exists; an exception of
\* fileExists is caught and counts as invalid
validateProjectStructure(files, a, existsThrows) ==
  /\ ~existsThrows
  /\ \A f \in Range(getEssentialFiles(a.framework)) : f \in files

\* --------------------------------------------------------- archive assembly
\* path.basename
RECURSIVE Basename(_)
Basename(p) ==
  IF Len(p) = 0 THEN << >>
  ELSE IF p[Len(p)] = "/" THEN << >>
  ELSE Basename(SubSeq(p, 1, Len(p) - 1)) \o <<p[Len(p)]>>

\* a buildConfig field read with `||`: an absent key yields the default
FieldOr(bc, name, dflt) == IF name \in DOMAIN bc THEN bc[name] ELSE dflt

\* generateAndroidManifest: the substituted fields of the manifest entry
generateAndroidManifest(a) ==
  [ package     |-> FieldOr(a.buildConfig, "packageName", <<"com", a.framework, "app">>),
    label       |-> FieldOr(a.buildConfig, "appName", "Mobile App"),
    versionName |-> FieldOr(a.buildConfig, "version", "1.0.0"),
    minSdk      |-> FieldOr(a.buildConfig, "minSdk", 21),
    targetSdk   |-> FieldOr(a.buildConfig, "targetSdk", 33) ]

\* no AndroidManifest.xml entry has been written
NoManifest ==
  [package |-> << >>, label |-> "", versionName |-> "", minSdk |-> 0, targetSdk |-> 0]

\* entries packageProjectAsApk always adds before the assets
FixedEntries ==
  { <<"AndroidManifest.xml">>, <<"classes.dex">>, <<"resources.arsc">>,
    <<"META-INF", "/", "MANIFEST.MF">>, <<"META-INF", "/", "CERT.SF">>,
    <<"META-INF", "/", "CERT.RSA">> }

\* generateMetaInf: the entry names its MANIFEST.MF text lists, each with a
\* fixed digest, and the tag byte that fills CERT.RSA
generateMetaInf ==
  [ manifest |-> {<<"AndroidManifest.xml">>, <<"classes.dex">>, <<"resources.arsc">>},
    rsa      |-> "0x30" ]

\* the launcher icon at three densities
IconEntries ==
  { <<"res", "/", "mipmap-mdpi", "/", "ic_launcher.png">>,
    <<"res", "/", "mipmap-hdpi", "/", "ic_launcher.png">>,
    <<"res", "/", "mipmap-xhdpi", "/", "ic_launcher.png">> }

\* addFlutterAssets copies at most this many files
FlutterAssetLimit == 10

\* the possible results of assetFiles.slice(0, 10)
FirstListed(listed) ==
  IF Cardinality(listed) <= FlutterAssetLimit THEN {listed}
  ELSE {t \in SUBSET listed : Cardinality(t) = FlutterAssetLimit}

\* candidate lists of addGenericAssets and createBasicApkFallback
GenericCandidates  == {IndexHtml, AppJs, MainJs, PackageJson}
FallbackCandidates == {PackageJson, IndexHtml, AppJs, RootMainDart, PubspecYaml}

\* project files that the asset step of a framework may read
AssetSources(framework, files) ==
  CASE framework = "flutter"      -> {f \in files : Dirname(f) = <<"assets">>}
    [] framework = "react-native" -> {IndexJs} \cap files
    [] framework = "cordova"      -> {WwwIndexHtml} \cap files
    [] OTHER                      -> GenericCandidates \cap files

\* addFrameworkAssets: the entries the asset step adds; a source whose read
\* throws is skipped, the exception never leaves the step
addFrameworkAssets(framework, files, folders, picked, unreadable) ==
  CASE framework = "flutter" ->
         IF <<"assets">> \in folders
         THEN {<<"assets", "/", "flutter_assets", "/">> \o Basename(f) : f \in picked \ unreadable}
         ELSE {}
    [] framework = "react-native" ->
         IF IndexJs \in files /\ IndexJs \notin unreadable
         THEN {<<"assets", "/", "index.android.bundle">>} ELSE {}
    [] framework = "cordova" ->
         IF <<"www">> \in folders /\ WwwIndexHtml \in files /\ WwwIndexHtml \notin unreadable
         THEN {<<"assets", "/", "www", "/", "index.html">>} ELSE {}
    [] OTHER ->
         {<<"assets", "/">> \o f : f \in (GenericCandidates \cap files) \ unreadable}

\* main routine whose asset step lets a read failure escape: the catch of
\* packageProjectAsApk then replaces the archive by the fallback
MainArchiveUnguarded(framework, files, folders, picked, unreadable) ==
  IF unreadable # {}
  THEN (FallbackCandidates \cap files) \ unreadable
  ELSE FixedEntries \cup addFrameworkAssets(framework, files, folders, picked, unreadable)
                    \cup IconEntries

\* packageProjectAsApk, main routine: the entries of the archive it writes
MainArchive(framework, files, folders, picked, unreadable) ==
  FixedEntries \cup addFrameworkAssets(framework, files, folders, picked, unreadable)
               \cup IconEntries

\* createBasicApkFallback: the candidate files that exist and can be read
createBasicApkFallback(files, unreadable) ==
  (FallbackCandidates \cap files) \ unreadable

\* byte size that getFileStats reports for a written archive (abstract units:
\* an archive without entries is still a non-empty file)
FileSize(entries) == Cardinality(entries) + 1

\* ------------------------------------------------------------------- state
VARIABLES
  disk,      \* files that exist under the project root
  dirs,      \* directories that exist under the project root
  gradle,    \* SDK tokens found in the app-level gradle files on disk
  detection, \* what detectFramework returned inside analyzeProject
  analysis,  \* the ProjectAnalysis handed to buildApk
  pc,        \* position of the invocation inside buildApk
  cb,        \* the onProgress argument: "none", "noop" or "faulty"
  progress,  \* percentages onProgress was called with, in call order
  thrown,    \* indices of the onProgress calls that threw
  result,    \* the BuildResult under construction
  stages,    \* pipeline stages entered so far, in order
  failedAt,  \* the stage that failed, or "none"
  faults,    \* file-system operations that raised during this invocation
  archive,   \* entries of the archive file at ApkPath, when that file exists
  written,   \* files created or overwritten by this invocation
  madeDirs,  \* directories created by this invocation
  deleted,   \* files removed from the tree after the analysis
  texts,     \* what the parsed text files on disk contain
  analysisFault, \* the file-system fault that hit analyzeProject, or "none"
  manifest,  \* substituted fields of the archive's AndroidManifest.xml entry
  spawned,   \* external commands started so far, in order
  trees,     \* two concurrent builds: the files below both project roots
  builds,    \* two concurrent builds: the state of each invocation
  pairLog,   \* two concurrent builds: every directory and file creation, in order
  lastProjectPath, \* the projectPath argument of the most recent buildApk call
  projectDir, \* service: the files of the uploaded project's directory
  stored,    \* service: the project record held by the storage
  analyzeReq, \* service: the handler of POST /analyze
  buildReqs, \* service: the handlers of POST /build, one per request
  pending,   \* service: progress-callback writes issued and not yet landed
  client,    \* service: the Converter page and its useConversion hook
  history,   \* service: what the routes answered so far
  walk       \* walker: the tree handed to getAllFiles and the list it returned

vars == <<disk, dirs, gradle, detection, analysis, pc, cb, progress, thrown, result,
          stages, failedAt, faults, archive, written, madeDirs, deleted,
          texts, analysisFault, manifest, spawned, trees, builds, pairLog,
          lastProjectPath, projectDir, stored, analyzeReq, buildReqs, pending,
          client, history, walk>>

\* the state of the two concurrent invocations
pairVars == <<trees, builds, pairLog, lastProjectPath>>

\* the walker before getAllFiles is called on the empty tree
NotWalked == [tree |-> {}, noFiles |-> {}, noDirs |-> {}, listed |-> << >>, done |-> FALSE]

\* the state of the routes, the storage and the client
serviceVars == <<projectDir, stored, analyzeReq, buildReqs, pending, client, history>>

\* the state of the single invocation
soloVars == <<disk, dirs, gradle, detection, analysis, pc, cb, progress, thrown, result,
              stages, failedAt, faults, archive, written, madeDirs, deleted,
              texts, analysisFault, manifest, spawned>>

\* the two invocations that share the apkBuilder instance, and their roots
Invocations == {1, 2}
ProjectRoot(i) == IF i = 1 THEN "uploads/project_1" ELSE "uploads/project_2"

\* an invocation that has not been called
NotCalled(start) ==
  [start |-> start, pc |-> "idle", analysis |-> NoAnalysis, k |-> 0,
   archive |-> {}, success |-> FALSE]

\* largest number of POST /build and POST /analyze requests in one behaviour
MaxBuildRequests == 2
MaxAnalyzeRequests == 2

\* the requests to the build route, numbered in order of arrival
BuildRequests == 1..MaxBuildRequests

\* no project has been uploaded
NoProject == [status |-> "none", progress |-> 0, apkPath |-> << >>, framework |-> "none"]

\* a handler of the build route that has not been entered
NoRequest == [pc |-> "idle", left |-> << >>, success |-> FALSE]

\* the service before the first request
ServiceAtRest ==
  /\ projectDir = {}
  /\ stored = NoProject
  /\ analyzeReq = "idle"
  /\ buildReqs = [b \in BuildRequests |-> NoRequest]
  /\ pending = {}
  /\ client = [shown |-> "none", due |-> FALSE, stale |-> FALSE, posts |-> 0]
  /\ history = [builds |-> 0, analyses |-> 0, analysis |-> NoAnalysis, late |-> {}]

\* what the app-level gradle file of an uploaded project may contain
GradleContents == [target : {-1, 34}, min : {-1, 24}]

NoPath == << >>

Init ==
  /\ disk \in {s \in SUBSET Universe : Cardinality(s) <= MaxFiles}
  /\ dirs = DirsOf(disk)
  /\ gradle \in [disk \cap {AppGradle, AndroidAppGradle} -> GradleContents]
  /\ detection = NoAnalysis
  /\ analysis = NoAnalysis
  /\ pc = "idle"
  /\ cb = "none"
  /\ progress = << >>
  /\ thrown = {}
  /\ result = [success |-> FALSE, apkPath |-> NoPath, apkSize |-> -1,
               errors |-> << >>, logs |-> << >>]
  /\ stages = << >>
  /\ failedAt = "none"
  /\ faults = {}
  /\ archive = {}
  /\ written = {}
  /\ madeDirs = {}
  /\ deleted = {}
  /\ texts \in {t \in [disk \cap ParsedFiles -> {"json", "garbage", "named", "bare"}] :
                  \A f \in DOMAIN t : t[f] \in TextContents(f)}
  /\ analysisFault = "none"
  /\ manifest = NoManifest
  /\ spawned = << >>
  /\ trees = {}
  /\ builds = [i \in Invocations |-> NotCalled({})]
  /\ pairLog = << >>
  /\ lastProjectPath = ""
  /\ ServiceAtRest
  /\ walk = NotWalked

\* ------------------------------------------------------------- onProgress
\* whether a call of the callback may throw
Throws(kind) == IF kind = "faulty" THEN BOOLEAN ELSE {FALSE}

\* onProgress?.(p, message): recorded when a callback was given; t says
\* whether this call throws
onProgress(p, t) ==
  /\ progress' = IF cb = "none" THEN progress ELSE Append(progress, p)
  /\ thrown' = IF t THEN thrown \cup {Len(progress) + 1} ELSE thrown

\* ------------------------------------------------------------------ actions
\* routes: projectAnalyzer.analyzeProject(projectDir)
AnalyzeProject ==
  /\ UNCHANGED pairVars
  /\ UNCHANGED serviceVars
  /\ UNCHANGED walk
  /\ pc = "idle"
  /\ detection' = detectFramework(getAllFiles(disk))
  /\ \E fault \in AnalysisFaults(disk) :
       /\ analysis' = analyzeProject(disk, gradle, texts, fault)
       /\ analysisFault' = fault
  /\ pc' = "analyzed"
  /\ UNCHANGED <<disk, dirs, gradle, cb, progress, thrown, result, stages,
                 failedAt, faults, archive, written, madeDirs, deleted>>
  /\ UNCHANGED <<texts, manifest, spawned>>

\* routes, DELETE /api/projects/:id running beside the build request: a file
\* of the project directory disappears after the analysis and before buildApk
DeleteFile ==
  /\ UNCHANGED pairVars
  /\ UNCHANGED serviceVars
  /\ UNCHANGED walk
  /\ pc = "analyzed"
  /\ Cardinality(deleted) < MaxDeletes
  /\ \E f \in disk :
       /\ disk' = disk \ {f}
       /\ deleted' = deleted \cup {f}
       /\ gradle' = [g \in (DOMAIN gradle) \ {f} |-> gradle[g]]
       /\ texts' = [g \in (DOMAIN texts) \ {f} |-> texts[g]]
  /\ UNCHANGED <<dirs, detection, analysis, pc, cb, progress, thrown, result,
                 stages, failedAt, faults, archive, written, madeDirs>>
  /\ UNCHANGED <<analysisFault, manifest, spawned>>

\* buildApk entry: fresh result, first milestone
BuildStart ==
  /\ UNCHANGED pairVars
  /\ UNCHANGED serviceVars
  /\ UNCHANGED walk
  /\ pc = "analyzed"
  /\ \E kind \in {"none", "noop", "faulty"} : \E t \in Throws(kind) :
       /\ cb' = kind
       /\ progress' = IF kind = "none" THEN << >> ELSE <<10>>
       /\ thrown' = IF t THEN {1} ELSE {}
       /\ pc' = IF t THEN "catch" ELSE "validateBuildRequirements"
  /\ result' = [success |-> FALSE, apkPath |-> NoPath, apkSize |-> -1,
                errors |-> << >>, logs |-> << >>]
  /\ UNCHANGED <<disk, dirs, gradle, detection, analysis, stages, failedAt, faults,
                 archive, written, madeDirs, deleted>>
  /\ UNCHANGED <<texts, analysisFault, manifest, spawned>>

\* requirement validation; on failure the errors are reported and buildApk returns
ValidateRequirements ==
  /\ UNCHANGED pairVars
  /\ UNCHANGED serviceVars
  /\ UNCHANGED walk
  /\ pc = "validateBuildRequirements"
  /\ stages' = Append(stages, "requirements")
  /\ LET errs == validateBuildRequirements(analysis) IN
       IF errs # << >>
       THEN /\ result' = [result EXCEPT !.errors = @ \o errs]
            /\ failedAt' = "requirements"
            /\ \E t \in Throws(cb) :
                 /\ onProgress(100, t)
                 /\ pc' = IF t THEN "catch" ELSE "returned"
       ELSE /\ pc' = "createMissingFiles"
            /\ UNCHANGED <<result, failedAt, progress, thrown>>
  /\ UNCHANGED <<disk, dirs, gradle, detection, analysis, cb, faults, archive, written, madeDirs, deleted>>
  /\ UNCHANGED <<texts, analysisFault, manifest, spawned>>

\* createMissingFiles: n loop rounds complete; the round after them may raise
\* in ensureDirectory or in writeFile
CreateMissingFiles ==
  /\ UNCHANGED pairVars
  /\ UNCHANGED serviceVars
  /\ UNCHANGED walk
  /\ pc = "createMissingFiles"
  /\ stages' = Append(stages, "scaffold")
  /\ LET m == analysis.missingFiles IN
     \E n \in 0..Len(m) : \E fail \in {"none", "ensureDirectory", "writeFile"} :
       /\ (fail = "none") <=> (n = Len(m))
       /\ (fail = "writeFile") => Creatable(m[n + 1])
       /\ LET made    == CreatedFiles(m, n)
              ensured == EnsuredDirs(m, IF fail = "writeFile" THEN n + 1 ELSE n)
              apps    == made \cap {AppGradle, AndroidAppGradle}
          IN /\ disk' = disk \cup made
             /\ written' = written \cup made
             /\ dirs' = dirs \cup ensured
             /\ madeDirs' = madeDirs \cup (ensured \ dirs)
             /\ gradle' = [f \in (DOMAIN gradle) \cup apps |->
                             IF f \in apps THEN GradleTemplate(analysis) ELSE gradle[f]]
             /\ texts' = [f \in (DOMAIN texts) \cup (made \cap ParsedFiles) |->
                            IF f \in made THEN TemplateText(f) ELSE texts[f]]
       /\ IF fail = "none"
          THEN /\ \E t \in Throws(cb) :
                    /\ onProgress(30, t)
                    /\ pc' = IF t THEN "catch" ELSE "validateProjectStructure"
               /\ UNCHANGED <<failedAt, faults>>
          ELSE /\ failedAt' = "scaffold"
               /\ faults' = faults \cup {fail}
               /\ pc' = "catch"
               /\ UNCHANGED <<progress, thrown>>
  /\ UNCHANGED <<detection, analysis, cb, result, archive, deleted>>
  /\ UNCHANGED <<analysisFault, manifest, spawned>>

\* ValidateStructure without the return of its failure branch
ValidateStructureNoReturn ==
  /\ UNCHANGED pairVars
  /\ UNCHANGED serviceVars
  /\ UNCHANGED walk
  /\ pc = "validateProjectStructure"
  /\ stages' = Append(stages, "structure")
  /\ \E ex \in (IF getEssentialFiles(analysis.framework) = << >> THEN {FALSE} ELSE BOOLEAN) :
       /\ faults' = IF ex THEN faults \cup {"fileExists"} ELSE faults
       /\ IF validateProjectStructure(disk, analysis, ex)
          THEN UNCHANGED <<result, failedAt>>
          ELSE /\ result' = [result EXCEPT
                    !.errors = Append(@, "Project structure validation failed after setup")]
               /\ failedAt' = "structure"
       /\ \E t \in Throws(cb) :
            /\ onProgress(70, t)
            /\ pc' = IF t THEN "catch" ELSE "createRealApk"
  /\ UNCHANGED <<disk, dirs, gradle, detection, analysis, cb, archive, written, madeDirs, deleted>>
  /\ UNCHANGED <<texts, analysisFault, manifest, spawned>>

\* structure validation; on failure one error is reported and buildApk returns
ValidateStructure ==
  /\ UNCHANGED pairVars
  /\ UNCHANGED serviceVars
  /\ UNCHANGED walk
  /\ pc = "validateProjectStructure"
  /\ stages' = Append(stages, "structure")
  /\ \E ex \in (IF getEssentialFiles(analysis.framework) = << >> THEN {FALSE} ELSE BOOLEAN) :
       /\ faults' = IF ex THEN faults \cup {"fileExists"} ELSE faults
       /\ IF validateProjectStructure(disk, analysis, ex)
          THEN /\ \E t \in Throws(cb) :
                    /\ onProgress(70, t)
                    /\ pc' = IF t THEN "catch" ELSE "createRealApk"
               /\ UNCHANGED <<result, failedAt>>
          ELSE /\ result' = [result EXCEPT
                    !.errors = Append(@, "Project structure validation failed after setup")]
               /\ failedAt' = "structure"
               /\ \E t \in Throws(cb) :
                    /\ onProgress(100, t)
                    /\ pc' = IF t THEN "catch" ELSE "returned"
  /\ UNCHANGED <<disk, dirs, gradle, detection, analysis, cb, archive, written, madeDirs, deleted>>
  /\ UNCHANGED <<texts, analysisFault, manifest, spawned>>

\* createRealApk: ensure the output directory, then packageProjectAsApk
\*   "ensureDirectory": ensureDirectory(apkDir) raises, nothing is packaged
\*   "main":     the main routine writes the archive
\*   "fallback": the main routine raises, createBasicApkFallback writes
\*   "none":     the main routine and the fallback both raise
CreateRealApk ==
  /\ UNCHANGED pairVars
  /\ UNCHANGED serviceVars
  /\ UNCHANGED walk
  /\ pc = "createRealApk"
  /\ stages' = Append(stages, "packaging")
  /\ \E how \in {"ensureDirectory", "main", "fallback", "none"} :
     \E unreadable \in SUBSET (IF how = "main" THEN AssetSources(analysis.framework, disk)
                              ELSE IF how = "fallback" THEN FallbackCandidates \cap disk
                              ELSE {}) :
     \E picked \in FirstListed(AssetSources(analysis.framework, disk)) :
       /\ IF how = "ensureDirectory"
          THEN UNCHANGED <<dirs, madeDirs, deleted>>
          ELSE /\ dirs' = dirs \cup DirChain(ApkDir)
               /\ madeDirs' = madeDirs \cup (DirChain(ApkDir) \ dirs)
       /\ archive' =
            CASE how = "main" ->
                   MainArchive(analysis.framework, disk, dirs, picked, unreadable)
              [] how = "fallback" -> createBasicApkFallback(disk, unreadable)
              [] OTHER -> archive
       /\ manifest' = IF how = "main" THEN generateAndroidManifest(analysis) ELSE manifest
       /\ written' = IF how \in {"main", "fallback"} THEN written \cup {ApkPath} ELSE written
       /\ disk' = IF how \in {"main", "fallback"} THEN disk \cup {ApkPath} ELSE disk
       /\ faults' = faults
            \cup (IF unreadable # {} THEN {"readFile"} ELSE {})
            \cup (CASE how = "ensureDirectory" -> {"ensureDirectory"}
                    [] how = "fallback" -> {"writeZip"}
                    [] how = "none" -> {"writeZip", "fallbackWriteZip"}
                    [] OTHER -> {})
       /\ failedAt' = IF how \in {"main", "fallback"} THEN failedAt ELSE "packaging"
       /\ pc' = IF how \in {"main", "fallback"} THEN "getFileStats" ELSE "catch"
  /\ UNCHANGED <<gradle, detection, analysis, cb, progress, thrown, result, deleted>>
  /\ UNCHANGED <<texts, analysisFault, spawned>>

\* Finish that reports a fixed package size instead of the size of the file
FinishFixedSize ==
  /\ UNCHANGED pairVars
  /\ UNCHANGED serviceVars
  /\ UNCHANGED walk
  /\ pc = "getFileStats"
  /\ stages' = Append(stages, "completed")
  /\ result' = [result EXCEPT
       !.success = TRUE,
       !.apkPath = ApkPath,
       !.apkSize = 5,
       !.logs = @ \o <<"APK package created successfully", "Framework",
                       "Package size", "Files included", "Build target">>]
  /\ \E t \in Throws(cb) :
       /\ onProgress(100, t)
       /\ pc' = IF t THEN "catch" ELSE "returned"
  /\ UNCHANGED <<disk, dirs, gradle, detection, analysis, cb, failedAt, faults, archive,
                 written, madeDirs, deleted>>
  /\ UNCHANGED <<texts, analysisFault, manifest, spawned>>

\* size of the archive, success, apkPath, apkSize, logs, last milestone
Finish ==
  /\ UNCHANGED pairVars
  /\ UNCHANGED serviceVars
  /\ UNCHANGED walk
  /\ pc = "getFileStats"
  /\ stages' = Append(stages, "completed")
  /\ result' = [result EXCEPT
       !.success = TRUE,
       !.apkPath = ApkPath,
       !.apkSize = IF ApkPath \in disk THEN FileSize(archive) ELSE 0,
       !.logs = @ \o <<"APK package created successfully", "Framework",
                       "Package size", "Files included", "Build target">>]
  /\ \E t \in Throws(cb) :
       /\ onProgress(100, t)
       /\ pc' = IF t THEN "catch" ELSE "returned"
  /\ UNCHANGED <<disk, dirs, gradle, detection, analysis, cb, failedAt, faults, archive,
                 written, madeDirs, deleted>>
  /\ UNCHANGED <<texts, analysisFault, manifest, spawned>>

\* a catch block that reports the milestone but records no error
CatchSilent ==
  /\ UNCHANGED pairVars
  /\ UNCHANGED serviceVars
  /\ UNCHANGED walk
  /\ pc = "catch"
  /\ \E t \in Throws(cb) :
       /\ onProgress(100, t)
       /\ pc' = IF t THEN "rejected" ELSE "returned"
  /\ UNCHANGED <<disk, dirs, gradle, detection, analysis, cb, result, stages, failedAt,
                 faults, archive, written, madeDirs, deleted>>
  /\ UNCHANGED <<texts, analysisFault, manifest, spawned>>

\* the catch block of buildApk: one error entry, milestone 100; an exception
\* of the callback here leaves buildApk as a rejection
Catch ==
  /\ UNCHANGED pairVars
  /\ UNCHANGED serviceVars
  /\ UNCHANGED walk
  /\ pc = "catch"
  /\ result' = [result EXCEPT !.errors = Append(@, "Build failed")]
  /\ \E t \in Throws(cb) :
       /\ onProgress(100, t)
       /\ pc' = IF t THEN "rejected" ELSE "returned"
  /\ UNCHANGED <<disk, dirs, gradle, detection, analysis, cb, stages, failedAt, faults,
                 archive, written, madeDirs, deleted>>
  /\ UNCHANGED <<texts, analysisFault, manifest, spawned>>

Next ==
  \/ AnalyzeProject
  \/ DeleteFile
  \/ BuildStart
  \/ ValidateRequirements
  \/ CreateMissingFiles
  \/ ValidateStructure
  \/ CreateRealApk
  \/ Finish
  \/ Catch

Spec == Init /\ [][Next]_vars

\* ------------------------------------------- the toolchain builder (apkBuilder.ts)
\* installDependencies: the command it runs for a framework, if any
InstallCommand(framework) ==
  CASE framework = "react-native" -> <<"npm install">>
    [] framework = "flutter"      -> <<"flutter pub get">>
    [] framework = "cordova"      -> <<"cordova prepare">>
    [] OTHER                      -> << >>

\* buildReactNative / buildFlutter / buildAndroid / buildCordova: the command
\* each runs
BuildCommand(framework) ==
  CASE framework = "react-native" -> <<"npx react-native run-android --variant=release">>
    [] framework = "flutter"      -> <<"flutter build apk --release">>
    [] framework = "android"      -> <<"./gradlew assembleRelease">>
    [] framework = "cordova"      -> <<"cordova build android --release">>
    [] OTHER                      -> << >>

\* the path each build* method returns, relative to the project root
ToolchainApkPath(framework) ==
  CASE framework = "react-native" ->
         <<"android", "/", "app", "/", "build", "/", "outputs", "/", "apk", "/", "release",
           "/", "app-release.apk">>
    [] framework = "flutter" ->
         <<"build", "/", "app", "/", "outputs", "/", "flutter-apk", "/", "app-release.apk">>
    [] framework = "android" ->
         <<"app", "/", "build", "/", "outputs", "/", "apk", "/", "release", "/", "app-release.apk">>
    [] OTHER ->
         <<"platforms", "/", "android", "/", "app", "/", "build", "/", "outputs", "/", "apk",
           "/", "release", "/", "app-release.apk">>

\* buildApk entry of the toolchain builder: fresh result, first milestone
ToolchainStart ==
  /\ UNCHANGED pairVars
  /\ UNCHANGED serviceVars
  /\ UNCHANGED walk
  /\ pc = "analyzed"
  /\ \E kind \in {"none", "noop", "faulty"} : \E t \in Throws(kind) :
       /\ cb' = kind
       /\ progress' = IF kind = "none" THEN << >> ELSE <<10>>
       /\ thrown' = IF t THEN {1} ELSE {}
       /\ pc' = IF t THEN "catch" ELSE "toolchainCreateMissingFiles"
  /\ result' = [success |-> FALSE, apkPath |-> NoPath, apkSize |-> -1,
                errors |-> << >>, logs |-> << >>]
  /\ UNCHANGED <<disk, dirs, gradle, detection, analysis, stages, failedAt, faults,
                 archive, written, madeDirs, deleted>>
  /\ UNCHANGED <<texts, analysisFault, manifest, spawned>>

\* createMissingFiles of the toolchain builder (the same loop), milestone 30
ToolchainCreateMissingFiles ==
  /\ UNCHANGED pairVars
  /\ UNCHANGED serviceVars
  /\ UNCHANGED walk
  /\ pc = "toolchainCreateMissingFiles"
  /\ stages' = Append(stages, "scaffold")
  /\ LET m == analysis.missingFiles IN
     \E n \in 0..Len(m) : \E fail \in {"none", "ensureDirectory", "writeFile"} :
       /\ (fail = "none") <=> (n = Len(m))
       /\ (fail = "writeFile") => Creatable(m[n + 1])
       /\ LET made    == CreatedFiles(m, n)
              ensured == EnsuredDirs(m, IF fail = "writeFile" THEN n + 1 ELSE n)
              apps    == made \cap {AppGradle, AndroidAppGradle}
          IN /\ disk' = disk \cup made
             /\ written' = written \cup made
             /\ dirs' = dirs \cup ensured
             /\ madeDirs' = madeDirs \cup (ensured \ dirs)
             /\ gradle' = [f \in (DOMAIN gradle) \cup apps |->
                             IF f \in apps THEN GradleTemplate(analysis) ELSE gradle[f]]
             /\ texts' = [f \in (DOMAIN texts) \cup (made \cap ParsedFiles) |->
                            IF f \in made THEN TemplateText(f) ELSE texts[f]]
       /\ IF fail = "none"
          THEN /\ \E t \in Throws(cb) :
                    /\ onProgress(30, t)
                    /\ pc' = IF t THEN "catch" ELSE "installDependencies"
               /\ UNCHANGED <<failedAt, faults>>
          ELSE /\ failedAt' = "scaffold"
               /\ faults' = faults \cup {fail}
               /\ pc' = "catch"
               /\ UNCHANGED <<progress, thrown>>
  /\ UNCHANGED <<detection, analysis, cb, result, archive, deleted>>
  /\ UNCHANGED <<analysisFault, manifest, spawned>>

\* installDependencies: runCommand spawns the package manager of the
\* framework; a non-zero exit code or a spawn error rejects
InstallDependencies ==
  /\ UNCHANGED pairVars
  /\ UNCHANGED serviceVars
  /\ UNCHANGED walk
  /\ pc = "installDependencies"
  /\ spawned' = spawned \o InstallCommand(analysis.framework)
  /\ \E exit \in (IF InstallCommand(analysis.framework) = << >> THEN {"ok"} ELSE {"ok", "failed"}) :
       IF exit = "ok"
       THEN /\ \E t \in Throws(cb) :
                 /\ onProgress(50, t)
                 /\ pc' = IF t THEN "catch" ELSE "buildByFramework"
            /\ UNCHANGED <<failedAt, faults>>
       ELSE /\ failedAt' = "install"
            /\ faults' = faults \cup {"runCommand"}
            /\ pc' = "catch"
            /\ UNCHANGED <<progress, thrown>>
  /\ UNCHANGED <<disk, dirs, gradle, detection, analysis, cb, result, stages, archive,
                 written, madeDirs, deleted, texts, analysisFault, manifest>>

\* buildByFramework: spawn the build command of the framework, then look for
\* the APK the toolchain should have left; every exception is turned into an
\* error entry inside buildByFramework
BuildByFramework ==
  /\ UNCHANGED pairVars
  /\ UNCHANGED serviceVars
  /\ UNCHANGED walk
  /\ pc = "buildByFramework"
  /\ stages' = Append(stages, "packaging")
  /\ spawned' = spawned \o BuildCommand(analysis.framework)
  /\ \E outcome \in (IF BuildCommand(analysis.framework) = << >> THEN {"unsupported"}
                       ELSE {"built", "no apk", "failed"}) :
       /\ disk' = IF outcome = "built"
                  THEN disk \cup {ToolchainApkPath(analysis.framework)} ELSE disk
       /\ result' =
            CASE outcome = "built" ->
                   [result EXCEPT !.success = TRUE,
                                  !.apkPath = ToolchainApkPath(analysis.framework),
                                  !.apkSize = FileSize(archive),
                                  !.logs = Append(@, "APK built successfully")]
              [] outcome = "no apk" ->
                   [result EXCEPT !.errors = Append(@, "APK file not found after build")]
              [] OTHER -> [result EXCEPT !.errors = Append(@, "Build failed")]
       /\ failedAt' = IF outcome = "built" THEN failedAt ELSE "packaging"
       /\ faults' = IF outcome = "failed" THEN faults \cup {"runCommand"} ELSE faults
  /\ \E t \in Throws(cb) :
       /\ onProgress(100, t)
       /\ pc' = IF t THEN "catch" ELSE "returned"
  /\ UNCHANGED <<dirs, gradle, detection, analysis, cb, archive, written, madeDirs,
                 deleted, texts, analysisFault, manifest>>

NextToolchain ==
  \/ AnalyzeProject
  \/ ToolchainStart
  \/ ToolchainCreateMissingFiles
  \/ InstallDependencies
  \/ BuildByFramework
  \/ Catch

SpecToolchain == Init /\ [][NextToolchain]_vars

\* ---------------------------------- two buildApk invocations, one shared instance
\* the files below a project root
TreeOf(root) == {w[2] : w \in {x \in trees : x[1] = root}}

\* the directories below a project root: those holding files and those an
\* ensureDirectory call created
FoldersOf(root) ==
  DirsOf(TreeOf(root))
  \cup UNION {DirChain(pairLog[n].path) :
                n \in {j \in 1..Len(pairLog) : pairLog[j].root = root /\ pairLog[j].kind = "dir"}}

\* project trees uploaded to the two roots
PairTrees ==
  { {PubspecYaml, MainDart}, {PackageJson, MetroConfig, IndexJs}, {RootGradle, AppGradle},
    {ConfigXml, WwwIndexHtml}, {IndexHtml}, {PubspecYaml} }

\* the text of the parsed files of these trees
PairTexts(files) ==
  [f \in files \cap ParsedFiles |-> IF f = PackageJson THEN "json" ELSE "named"]

\* routes: analyzeProject(projectDir) on the tree below the invocation's root
PairAnalysis(files) == analyzeProject(files, << >>, PairTexts(files), "none")

InitPair ==
  /\ disk = {} /\ dirs = {} /\ gradle = << >> /\ texts = << >>
  /\ detection = NoAnalysis /\ analysis = NoAnalysis /\ analysisFault = "none"
  /\ pc = "idle" /\ cb = "none" /\ progress = << >> /\ thrown = {}
  /\ result = [success |-> FALSE, apkPath |-> NoPath, apkSize |-> -1,
               errors |-> << >>, logs |-> << >>]
  /\ stages = << >> /\ failedAt = "none" /\ faults = {} /\ archive = {}
  /\ written = {} /\ madeDirs = {} /\ deleted = {}
  /\ manifest = NoManifest /\ spawned = << >>
  /\ \E start \in [Invocations -> PairTrees] :
       /\ trees = UNION {{<<ProjectRoot(i), f>> : f \in start[i]} : i \in Invocations}
       /\ builds = [i \in Invocations |-> NotCalled(start[i])]
  /\ pairLog = << >>
  /\ lastProjectPath = ""
  /\ ServiceAtRest
  /\ walk = NotWalked

\* position after loop round k of createMissingFiles
AfterRound(missing, k) ==
  IF k < Len(missing) THEN "ensureDirectory" ELSE "validateProjectStructure"

\* the build route calls analyzeProject and buildApk(projectDir, analysis);
\* buildApk validates the requirements before its first await on the disk
PairBuildStart(i) ==
  /\ builds[i].pc = "idle"
  /\ LET a == PairAnalysis(TreeOf(ProjectRoot(i))) IN
       builds' = [builds EXCEPT ![i].analysis = a,
                                ![i].pc = IF validateBuildRequirements(a) # << >>
                                          THEN "returned"
                                          ELSE AfterRound(a.missingFiles, 0)]
  /\ lastProjectPath' = ProjectRoot(i)
  /\ UNCHANGED <<trees, pairLog>>
  /\ UNCHANGED soloVars
  /\ UNCHANGED serviceVars
  /\ UNCHANGED walk

\* createMissingFiles, first await of a loop round:
\* ensureDirectory(path.dirname(path.join(projectPath, missingFile)))
PairEnsureDirectory(i) ==
  /\ builds[i].pc = "ensureDirectory"
  /\ LET m == builds[i].analysis.missingFiles[builds[i].k + 1] IN
       /\ pairLog' = Append(pairLog, [by |-> i, root |-> ProjectRoot(i),
                                      path |-> Dirname(m), kind |-> "dir"])
       /\ builds' = IF Creatable(m)
                    THEN [builds EXCEPT ![i].pc = "writeFile"]
                    ELSE [builds EXCEPT ![i].k = @ + 1,
                            ![i].pc = AfterRound(builds[i].analysis.missingFiles, builds[i].k + 1)]
  /\ UNCHANGED <<trees, lastProjectPath>>
  /\ UNCHANGED soloVars
  /\ UNCHANGED serviceVars
  /\ UNCHANGED walk

\* a template writer that takes the root from the shared instance instead of
\* its projectPath argument
PairWriteFileShared(i) ==
  /\ builds[i].pc = "writeFile"
  /\ LET m == builds[i].analysis.missingFiles[builds[i].k + 1] IN
       /\ trees' = trees \cup {<<lastProjectPath, m>>}
       /\ pairLog' = Append(pairLog, [by |-> i, root |-> lastProjectPath,
                                      path |-> m, kind |-> "file"])
       /\ builds' = [builds EXCEPT ![i].k = @ + 1,
                       ![i].pc = AfterRound(builds[i].analysis.missingFiles, builds[i].k + 1)]
  /\ UNCHANGED lastProjectPath
  /\ UNCHANGED soloVars
  /\ UNCHANGED serviceVars
  /\ UNCHANGED walk

\* createMissingFiles, second await of a loop round: the template is written
\* at path.join(projectPath, missingFile)
PairWriteFile(i) ==
  /\ builds[i].pc = "writeFile"
  /\ LET m == builds[i].analysis.missingFiles[builds[i].k + 1] IN
       /\ trees' = trees \cup {<<ProjectRoot(i), m>>}
       /\ pairLog' = Append(pairLog, [by |-> i, root |-> ProjectRoot(i),
                                      path |-> m, kind |-> "file"])
       /\ builds' = [builds EXCEPT ![i].k = @ + 1,
                       ![i].pc = AfterRound(builds[i].analysis.missingFiles, builds[i].k + 1)]
  /\ UNCHANGED lastProjectPath
  /\ UNCHANGED soloVars
  /\ UNCHANGED serviceVars
  /\ UNCHANGED walk

\* validateProjectStructure on the invocation's own root
PairValidateStructure(i) ==
  /\ builds[i].pc = "validateProjectStructure"
  /\ builds' = [builds EXCEPT ![i].pc =
                   IF validateProjectStructure(TreeOf(ProjectRoot(i)), builds[i].analysis, FALSE)
                   THEN "ensureApkDirectory" ELSE "returned"]
  /\ UNCHANGED <<trees, pairLog, lastProjectPath>>
  /\ UNCHANGED soloVars
  /\ UNCHANGED serviceVars
  /\ UNCHANGED walk

\* createRealApk, first await: ensureDirectory(path.join(projectPath, ...))
PairEnsureApkDirectory(i) ==
  /\ builds[i].pc = "ensureApkDirectory"
  /\ pairLog' = Append(pairLog, [by |-> i, root |-> ProjectRoot(i),
                                 path |-> ApkDir, kind |-> "dir"])
  /\ builds' = [builds EXCEPT ![i].pc = "packageProjectAsApk"]
  /\ UNCHANGED <<trees, lastProjectPath>>
  /\ UNCHANGED soloVars
  /\ UNCHANGED serviceVars
  /\ UNCHANGED walk

\* packageProjectAsApk: the assets are read below projectPath and the archive
\* is written at the apkPath built from projectPath
PairPackage(i) ==
  /\ builds[i].pc = "packageProjectAsApk"
  /\ LET root  == ProjectRoot(i)
         fw    == builds[i].analysis.framework
         files == TreeOf(root)
     IN /\ trees' = trees \cup {<<root, ApkPath>>}
        /\ pairLog' = Append(pairLog, [by |-> i, root |-> root, path |-> ApkPath,
                                       kind |-> "file"])
        /\ builds' = [builds EXCEPT
              ![i].archive = MainArchive(fw, files, FoldersOf(root),
                                         AssetSources(fw, files), {}),
              ![i].success = TRUE,
              ![i].pc = "returned"]
  /\ UNCHANGED lastProjectPath
  /\ UNCHANGED soloVars
  /\ UNCHANGED serviceVars
  /\ UNCHANGED walk

NextPair ==
  \/ \E i \in Invocations : PairBuildStart(i)
  \/ \E i \in Invocations : PairEnsureDirectory(i)
  \/ \E i \in Invocations : PairWriteFile(i)
  \/ \E i \in Invocations : PairValidateStructure(i)
  \/ \E i \in Invocations : PairEnsureApkDirectory(i)
  \/ \E i \in Invocations : PairPackage(i)

SpecPair == InitPair /\ [][NextPair]_vars

\* ------------------------------------------- routes, storage and the client page
\* project archives a user uploads
ServiceTrees ==
  { {PubspecYaml, MainDart}, {RootGradle, AppGradle, AppManifest}, {IndexHtml} }

\* buildApk on a project directory, no file-system fault: whether it succeeds,
\* the directory afterwards and the milestones it reports, in order
buildApkOutcome(files) ==
  LET a        == PairAnalysis(files)
      refused  == validateBuildRequirements(a) # << >>
      scaffold == files \cup CreatedFiles(a.missingFiles, Len(a.missingFiles))
      ok       == ~refused /\ validateProjectStructure(scaffold, a, FALSE)
  IN [ success    |-> ok,
       files      |-> IF refused THEN files
                      ELSE IF ok THEN scaffold \cup {ApkPath} ELSE scaffold,
       milestones |-> IF refused THEN <<10, 100>>
                      ELSE IF ok THEN <<10, 30, 70, 100>> ELSE <<10, 30, 100>> ]

\* storage.updateProject(id, fields): the fields given replace the stored
\* ones, every other field of the record is kept
updateProject(record, fields) ==
  [k \in DOMAIN record |-> IF k \in DOMAIN fields THEN fields[k] ELSE record[k]]

\* POST /api/projects/upload: the record is created, the archive extracted
\* into the project directory; the page shows the project of the response
Upload ==
  /\ stored = NoProject
  /\ \E files \in ServiceTrees :
       /\ projectDir' = files
       /\ stored' = updateProject(NoProject, [status |-> "extracted", progress |-> 25])
       /\ client' = [client EXCEPT !.shown = "extracted", !.due = TRUE]
  /\ UNCHANGED <<analyzeReq, buildReqs, pending, history>>
  /\ UNCHANGED soloVars
  /\ UNCHANGED pairVars
  /\ UNCHANGED walk

\* POST /api/projects/:id/analyze up to its first storage write; the page sends
\* it from handleStartConversion
AnalyzeBegin ==
  /\ client.shown # "none"
  /\ analyzeReq = "idle"
  /\ history.analyses < MaxAnalyzeRequests
  /\ analyzeReq' = "running"
  /\ stored' = updateProject(stored, [status |-> "analyzing", progress |-> 10])
  /\ history' = [history EXCEPT !.analyses = @ + 1]
  /\ UNCHANGED <<projectDir, buildReqs, pending, client>>
  /\ UNCHANGED soloVars
  /\ UNCHANGED pairVars
  /\ UNCHANGED walk

\* the rest of the analyze route: analyzeProject, the status taken from
\* hasValidStructure, the response; the catch block when a call raises.
\* The page invalidates its project query when the response arrives.
AnalyzeEnd ==
  /\ analyzeReq = "running"
  /\ \E raised \in BOOLEAN :
       LET a == PairAnalysis(projectDir) IN
       /\ stored' = IF raised
                    THEN updateProject(stored, [status |-> "error", progress |-> 0])
                    ELSE updateProject(stored,
                           [framework |-> a.framework,
                            status |-> IF a.hasValidStructure THEN "analyzed" ELSE "error",
                            progress |-> 50])
       /\ history' = [history EXCEPT !.analysis = IF raised THEN NoAnalysis ELSE a]
       /\ client' = IF raised THEN client ELSE [client EXCEPT !.stale = TRUE]
  /\ analyzeReq' = "idle"
  /\ UNCHANGED <<projectDir, buildReqs, pending>>
  /\ UNCHANGED soloVars
  /\ UNCHANGED pairVars
  /\ UNCHANGED walk

\* the project query of the page refetches GET /api/projects/:id
Refetch ==
  /\ client.stale
  /\ client' = [client EXCEPT !.stale = FALSE, !.shown = stored.status,
                              !.due = @ \/ stored.status # client.shown]
  /\ UNCHANGED <<projectDir, stored, analyzeReq, buildReqs, pending, history>>
  /\ UNCHANGED soloVars
  /\ UNCHANGED pairVars
  /\ UNCHANGED walk

\* the auto-start effect of the page, due after a render in which the shown
\* status or the buildApk callback changed: when the status is 'analyzed' it
\* calls buildMutation.mutate, which sends POST /build; the mutation state
\* changes, so the next render has a new buildMutation, a new buildApk, and
\* the effect is due again
AutoStartEffect ==
  /\ client.due
  /\ IF client.shown = "analyzed"
     THEN /\ history.builds < MaxBuildRequests
          /\ client' = [client EXCEPT !.due = TRUE, !.posts = @ + 1]
          /\ history' = [history EXCEPT !.builds = @ + 1]
     ELSE /\ client' = [client EXCEPT !.due = FALSE]
          /\ UNCHANGED history
  /\ UNCHANGED <<projectDir, stored, analyzeReq, buildReqs, pending>>
  /\ UNCHANGED soloVars
  /\ UNCHANGED pairVars
  /\ UNCHANGED walk

\* the next free handler of the build route
NextRequest ==
  CHOOSE b \in BuildRequests :
    buildReqs[b].pc = "idle" /\ \A c \in BuildRequests : c < b => buildReqs[c].pc # "idle"

\* POST /api/projects/:id/build up to its first storage write: the project is
\* looked up and marked as building whatever its status is
BuildBegin ==
  /\ client.posts > 0
  /\ client' = [client EXCEPT !.posts = @ - 1]
  /\ buildReqs' = [buildReqs EXCEPT ![NextRequest] =
                     [pc |-> "analyzeProject", left |-> << >>, success |-> FALSE]]
  /\ stored' = updateProject(stored, [status |-> "building", progress |-> 60])
  /\ UNCHANGED <<projectDir, analyzeReq, pending, history>>
  /\ UNCHANGED soloVars
  /\ UNCHANGED pairVars
  /\ UNCHANGED walk

\* the build route from getProjectDirectory to the call of buildApk: the
\* directory is analysed again and buildApk runs on it; a call that raises
\* takes the route to its catch block
BuildRun(b) ==
  /\ buildReqs[b].pc = "analyzeProject"
  /\ \E raised \in BOOLEAN :
       IF raised
       THEN /\ buildReqs' = [buildReqs EXCEPT ![b].pc = "catch"]
            /\ UNCHANGED projectDir
       ELSE LET out == buildApkOutcome(projectDir) IN
            /\ buildReqs' = [buildReqs EXCEPT ![b].pc = "buildApk",
                                              ![b].left = out.milestones,
                                              ![b].success = out.success]
            /\ projectDir' = out.files
  /\ UNCHANGED <<stored, analyzeReq, pending, client, history>>
  /\ UNCHANGED soloVars
  /\ UNCHANGED pairVars
  /\ UNCHANGED walk

\* buildApk reports a milestone: the callback of the route starts
\* storage.updateProject(id, {progress}) and buildApk goes on without
\* awaiting the promise the callback returns
BuildProgress(b) ==
  /\ buildReqs[b].pc = "buildApk"
  /\ buildReqs[b].left # << >>
  /\ pending' = pending \cup {[by |-> b, progress |-> Head(buildReqs[b].left)]}
  /\ buildReqs' = [buildReqs EXCEPT ![b].left = Tail(@)]
  /\ UNCHANGED <<projectDir, stored, analyzeReq, client, history>>
  /\ UNCHANGED soloVars
  /\ UNCHANGED pairVars
  /\ UNCHANGED walk

\* a progress write of a callback lands in the storage
CallbackWrite ==
  /\ \E w \in pending :
       /\ pending' = pending \ {w}
       /\ stored' = updateProject(stored, [progress |-> w.progress])
       /\ history' = [history EXCEPT
            !.late = IF buildReqs[w.by].pc \in {"written", "responded"}
                     THEN @ \cup {w.by} ELSE @]
  /\ UNCHANGED <<projectDir, analyzeReq, buildReqs, client>>
  /\ UNCHANGED soloVars
  /\ UNCHANGED pairVars
  /\ UNCHANGED walk

\* buildApk has returned: the route stores the result of the build
BuildResult(b) ==
  /\ buildReqs[b].pc = "buildApk"
  /\ buildReqs[b].left = << >>
  /\ stored' = IF buildReqs[b].success
               THEN updateProject(stored, [status |-> "completed", progress |-> 100,
                                           apkPath |-> ApkPath])
               ELSE updateProject(stored, [status |-> "error", progress |-> 100])
  /\ buildReqs' = [buildReqs EXCEPT ![b].pc = "written"]
  /\ UNCHANGED <<projectDir, analyzeReq, pending, client, history>>
  /\ UNCHANGED soloVars
  /\ UNCHANGED pairVars
  /\ UNCHANGED walk

\* the route writes the logs of the result and responds; the page
\* invalidates the project query and renders the settled mutation
BuildRespond(b) ==
  /\ buildReqs[b].pc = "written"
  /\ buildReqs' = [buildReqs EXCEPT ![b].pc = "responded"]
  /\ client' = [client EXCEPT !.stale = TRUE, !.due = TRUE]
  /\ UNCHANGED <<projectDir, stored, analyzeReq, pending, history>>
  /\ UNCHANGED soloVars
  /\ UNCHANGED pairVars
  /\ UNCHANGED walk

\* the catch block of the build route: status error, answer 500
BuildCatch(b) ==
  /\ buildReqs[b].pc = "catch"
  /\ stored' = updateProject(stored, [status |-> "error", progress |-> 100])
  /\ buildReqs' = [buildReqs EXCEPT ![b].pc = "responded"]
  /\ client' = [client EXCEPT !.due = TRUE]
  /\ UNCHANGED <<projectDir, analyzeReq, pending, history>>
  /\ UNCHANGED soloVars
  /\ UNCHANGED pairVars
  /\ UNCHANGED walk

\* what GET /api/projects/:id/download answers for a stored record: 404
\* without a project or without an apkPath, the file otherwise
download(record) ==
  IF record = NoProject \/ record.apkPath = << >> THEN 404 ELSE 200

InitService ==
  /\ disk = {} /\ dirs = {} /\ gradle = << >> /\ texts = << >>
  /\ detection = NoAnalysis /\ analysis = NoAnalysis /\ analysisFault = "none"
  /\ pc = "idle" /\ cb = "none" /\ progress = << >> /\ thrown = {}
  /\ result = [success |-> FALSE, apkPath |-> NoPath, apkSize |-> -1,
               errors |-> << >>, logs |-> << >>]
  /\ stages = << >> /\ failedAt = "none" /\ faults = {} /\ archive = {}
  /\ written = {} /\ madeDirs = {} /\ deleted = {}
  /\ manifest = NoManifest /\ spawned = << >>
  /\ trees = {} /\ builds = [i \in Invocations |-> NotCalled({})]
  /\ pairLog = << >> /\ lastProjectPath = ""
  /\ ServiceAtRest
  /\ walk = NotWalked

NextService ==
  \/ Upload
  \/ AnalyzeBegin
  \/ AnalyzeEnd
  \/ Refetch
  \/ AutoStartEffect
  \/ BuildBegin
  \/ \E b \in BuildRequests : BuildRun(b)
  \/ \E b \in BuildRequests : BuildProgress(b)
  \/ CallbackWrite
  \/ \E b \in BuildRequests : BuildResult(b)
  \/ \E b \in BuildRequests : BuildRespond(b)
  \/ \E b \in BuildRequests : BuildCatch(b)

SpecService == InitService /\ [][NextService]_vars

\* ------------------------------------ validateBuildRequirements on any analysis
\* the presence flags a buildConfig may carry
PresenceFlags == {"hasPackageJson", "hasPubspec", "hasBuildGradle", "hasConfigXml"}

\* framework tags a caller may hand to buildApk
AnyFramework ==
  {"react-native", "flutter", "android", "cordova", "generic-mobile", "unknown", "ionic"}

\* the marker files of the four frameworks
MarkerFiles == {PackageJson, PubspecYaml, RootGradle, ConfigXml}

\* buildApk is entered with an arbitrary analysis, on a directory that holds
\* all marker files or none
InitRequirements ==
  /\ disk \in {{}, MarkerFiles}
  /\ dirs = {} /\ gradle = << >> /\ texts = << >>
  /\ detection = NoAnalysis /\ analysisFault = "none"
  /\ \E fw \in AnyFramework : \E set \in SUBSET PresenceFlags : \E given \in SUBSET PresenceFlags :
       /\ set \subseteq given
       /\ analysis = [framework |-> fw, buildConfig |-> [f \in given |-> f \in set]]
  /\ pc = "validateBuildRequirements" /\ cb \in {"none", "noop"}
  /\ progress = (IF cb = "none" THEN << >> ELSE <<10>>) /\ thrown = {}
  /\ result = [success |-> FALSE, apkPath |-> NoPath, apkSize |-> -1,
               errors |-> << >>, logs |-> << >>]
  /\ stages = << >> /\ failedAt = "none" /\ faults = {} /\ archive = {}
  /\ written = {} /\ madeDirs = {} /\ deleted = {}
  /\ manifest = NoManifest /\ spawned = << >>
  /\ trees = {} /\ builds = [i \in Invocations |-> NotCalled({})]
  /\ pairLog = << >> /\ lastProjectPath = ""
  /\ ServiceAtRest
  /\ walk = NotWalked

NextRequirements == ValidateRequirements

SpecRequirements == InitRequirements /\ [][NextRequirements]_vars

\* --------------------------------------------- getAllFiles, directory by directory
\* a chain of n nested directories
LevelNames == <<"l1", "l2", "l3", "l4", "l5", "l6", "l7", "l8", "l9", "l10", "l11">>
RECURSIVE Chain(_)
Chain(n) == IF n = 1 THEN <<LevelNames[1]>> ELSE Chain(n - 1) \o <<"/", LevelNames[n]>>

\* files of the trees the walker is run on: at the root, in ordinary, skipped
\* and nested skipped directories, and at the deepest levels
DotFile      == <<".gitignore">>
GitConfig    == <<".git", "/", "config">>
CachedJs     == <<"www", "/", ".cache", "/", "index", ".js">>
NestedModule == <<"www", "/", "node_modules", "/", "index", ".js">>
DeepFile     == Chain(MaxDepth) \o <<"/", "index", ".js">>
DeeperFile   == Chain(MaxDepth + 1) \o <<"/", "index", ".js">>
WalkerUniverse ==
  { IndexHtml, DotFile, WwwIndexHtml, GitConfig, CachedJs, NestedModule, NodeModulesPkg,
    DeepFile, DeeperFile }

\* largest number of files in a tree the walker is run on
MaxWalkedFiles == 4

\* some enumeration of a set, as readdir returns one
RECURSIVE SetToSeq(_)
SetToSeq(set) ==
  IF set = {} THEN << >>
  ELSE LET x == CHOOSE y \in set : TRUE IN <<x>> \o SetToSeq(set \ {x})

\* fileManager.listFiles / listDirectories of a directory of the tree
listFiles(tree, dir) == {f \in tree : Dirname(f) = dir}
listDirectories(tree, dir) == {d \in DirsOf(tree) : Dirname(d) = dir}

\* relativePath.split('/').length: '' splits into one empty component
SplitLength(rel) == IF rel = << >> THEN 1 ELSE Depth(rel) + 1

\* dir.startsWith('.')
StartsWithDot(name) == name \in {".git", ".cache"}

\* a directory test that only knows node_modules
SkipsNodeModulesOnly(dir) == Basename(dir) = <<"node_modules">>

\* the directories the walker does not descend into
Skips(dir) ==
  \/ StartsWithDot(Basename(dir)[1])
  \/ Basename(dir) = <<"node_modules">>
  \/ Basename(dir) = <<".git">>

\* getAllFiles(directory, relativePath): the files of the directory, then the
\* lists of its subdirectories while the depth allows; an exception of
\* listFiles leaves the list empty, one of listDirectories leaves the files
RECURSIVE walkFiles(_, _, _, _), walkDirectories(_, _, _, _)
walkFiles(tree, noFiles, noDirs, rel) ==
  IF rel \in noFiles THEN << >>
  ELSE SetToSeq(listFiles(tree, rel))
       \o (IF rel \notin noDirs /\ SplitLength(rel) < MaxDepth
           THEN walkDirectories(tree, noFiles, noDirs,
                                SetToSeq({d \in listDirectories(tree, rel) : ~Skips(d)}))
           ELSE << >>)
walkDirectories(tree, noFiles, noDirs, todo) ==
  IF todo = << >> THEN << >>
  ELSE walkFiles(tree, noFiles, noDirs, Head(todo))
       \o walkDirectories(tree, noFiles, noDirs, Tail(todo))

\* a tree is handed to the walker; at most one directory fails in listFiles
\* and at most one in listDirectories
InitWalker ==
  /\ disk = {} /\ dirs = {} /\ gradle = << >> /\ texts = << >>
  /\ detection = NoAnalysis /\ analysis = NoAnalysis /\ analysisFault = "none"
  /\ pc = "idle" /\ cb = "none" /\ progress = << >> /\ thrown = {}
  /\ result = [success |-> FALSE, apkPath |-> NoPath, apkSize |-> -1,
               errors |-> << >>, logs |-> << >>]
  /\ stages = << >> /\ failedAt = "none" /\ faults = {} /\ archive = {}
  /\ written = {} /\ madeDirs = {} /\ deleted = {}
  /\ manifest = NoManifest /\ spawned = << >>
  /\ trees = {} /\ builds = [i \in Invocations |-> NotCalled({})]
  /\ pairLog = << >> /\ lastProjectPath = ""
  /\ ServiceAtRest
  /\ \E tree \in {t \in SUBSET WalkerUniverse : Cardinality(t) <= MaxWalkedFiles} :
     \E noFiles \in {{}} \cup {{d} : d \in DirsOf(tree) \cup {<< >>}} :
     \E noDirs \in {{}} \cup {{d} : d \in DirsOf(tree) \cup {<< >>}} :
       walk = [tree |-> tree, noFiles |-> noFiles, noDirs |-> noDirs,
               listed |-> << >>, done |-> FALSE]

\* analyzeProject calls getAllFiles(projectPath)
GetAllFiles ==
  /\ ~walk.done
  /\ walk' = [walk EXCEPT !.done = TRUE,
                          !.listed = walkFiles(walk.tree, walk.noFiles, walk.noDirs, << >>)]
  /\ UNCHANGED soloVars
  /\ UNCHANGED pairVars
  /\ UNCHANGED serviceVars

NextWalker == GetAllFiles

SpecWalker == InitWalker /\ [][NextWalker]_vars

\* ================================================================== claims
\* buildApk has ended: it returned a BuildResult or it rejected
Terminal == {"returned", "rejected"}

\* positions past the end of the try block
Leaving == {"catch", "returned", "rejected"}

StageOrder == <<"requirements", "scaffold", "structure", "packaging", "completed">>

IsPrefix(s, t) ==
  Len(s) <= Len(t) /\ \A i \in 1..Len(s) : s[i] = t[i]

C1_WitnessAbort ==
  pc = "returned" /\ failedAt = "structure" /\ stages = SubSeq(StageOrder, 1, 3)

\* the requirement the claim names for each framework is not met
RequirementUnmet(a) ==
  \/ a.framework = "react-native" /\ ~Flag(a.buildConfig, "hasPackageJson")
  \/ a.framework = "flutter" /\ ~Flag(a.buildConfig, "hasPubspec")
  \/ a.framework = "android" /\ ~Flag(a.buildConfig, "hasBuildGradle")
  \/ a.framework = "cordova" /\ ~Flag(a.buildConfig, "hasConfigXml")

RequirementMessages ==
  { "React Native project missing package.json", "Flutter project missing pubspec.yaml",
    "Android project missing build.gradle", "Cordova project missing config.xml" }

\* C2: when requirement validation fails, buildApk leaves the try block
\* before the synthesizer runs: nothing under the project root is created or
\* overwritten, success is false and the first entry of errors is the
\* validation error.
C2_RequirementFailureWritesNothing ==
  ("requirements" \in Range(stages) /\ RequirementUnmet(analysis)) =>
    /\ pc \in Leaving
    /\ stages = <<"requirements">>
    /\ written = {} /\ madeDirs = {} /\ ApkPath \notin disk
    /\ ~result.success
    /\ result.errors # << >> /\ result.errors[1] \in RequirementMessages

\* react-native with hasPackageJson = false has returned
C2_Witness ==
  /\ pc = "returned"
  /\ analysis.framework = "react-native"
  /\ ~Flag(analysis.buildConfig, "hasPackageJson")
  /\ Len(analysis.missingFiles) > 0

\* C3: when structure validation has run and an essential file of the
\* framework is not on disk, packaging is never entered: no archive is written,
\* success is false and errors carries the structure-validation error; for
\* generic-mobile the gate never fails.
C3_StructureFailureWritesNoArchive ==
  /\ ( /\ "structure" \in Range(stages)
       /\ \E f \in Range(getEssentialFiles(analysis.framework)) : f \notin disk ) =>
         /\ pc \in Leaving
         /\ "packaging" \notin Range(stages)
         /\ ApkPath \notin written /\ ApkPath \notin disk /\ archive = {}
         /\ ~result.success
         /\ \E i \in 1..Len(result.errors) :
              result.errors[i] = "Project structure validation failed after setup"
  /\ analysis.framework = "generic-mobile" => failedAt # "structure"

\* the synthesizer ran, an essential file is still missing, buildApk returned
C3_Witness ==
  /\ pc = "returned"
  /\ failedAt = "structure"
  /\ faults = {}
  /\ written # {}

\* both validation gates have been passed
GatesPassed ==
  "structure" \in Range(stages) /\ failedAt \notin {"requirements", "structure"}

\* C4 (as claimed): once both validation gates have passed, buildApk ends by
\* returning success = true with an archive file at the output path, also when
\* the callback never throws.
C4_AlwaysAnArchive ==
  (pc \in Terminal /\ GatesPassed /\ thrown = {}) =>
    /\ pc = "returned"
    /\ result.success
    /\ ApkPath \in disk

\* a file that only the asset step reads was removed after the analysis of a
\* project that passes both gates
OptionalAssetDeleted ==
  /\ deleted # {}
  /\ deleted \subseteq AssetSources(analysis.framework, disk \cup deleted)
  /\ deleted \cap Range(getEssentialFiles(analysis.framework)) = {}
  /\ validateBuildRequirements(analysis) = << >>
  /\ \A f \in Range(getEssentialFiles(analysis.framework)) :
       f \in disk \cup CreatedFiles(analysis.missingFiles, Len(analysis.missingFiles))

\* C5: when the only thing that goes wrong during the invocation is the asset
\* step (the read of an asset source raises, or the source was removed after
\* the analysis), the main routine still writes the archive with the
\* manifest, bytecode, resources, signing and icon entries, no stage fails and
\* the returned result has success = true.
C5_AssetFailureSwallowed ==
  /\ faults = {"readFile"} =>
       /\ ApkPath \in disk
       /\ (FixedEntries \cup IconEntries) \subseteq archive
       /\ failedAt = "none"
       /\ pc = "returned" => result.success
  /\ (pc \in Terminal /\ OptionalAssetDeleted /\ thrown = {} /\ faults \subseteq {"readFile"}) =>
       /\ pc = "returned"
       /\ result.success
       /\ (FixedEntries \cup IconEntries) \subseteq archive

\* an asset read failed, the build returned
C5_Witness ==
  pc = "returned" /\ faults = {"readFile"} /\ thrown = {} /\ result.success

\* an asset source was removed after the analysis, the build returned
C5_WitnessDeleted ==
  pc = "returned" /\ OptionalAssetDeleted /\ result.success

\* number of entries of a sequence equal to x
Count(s, x) == Cardinality({i \in 1..Len(s) : s[i] = x})

\* an exception reached the top level of buildApk
Raised ==
  \/ thrown # {}
  \/ faults \cap {"ensureDirectory", "writeFile", "fallbackWriteZip"} # {}

\* C6 (as claimed): buildApk never rejects; an exception raised inside it
\* becomes exactly one "Build failed" entry of result.errors and the returned
\* result has success = false.
C6_NeverRejects ==
  /\ pc # "rejected"
  /\ (pc = "returned" /\ Raised) =>
       /\ Count(result.errors, "Build failed") = 1
       /\ ~result.success

\* the result of the same invocation with a callback that does nothing and
\* no file-system fault: decided by the two gates alone
ReferenceErrors ==
  IF validateBuildRequirements(analysis) # << >> THEN validateBuildRequirements(analysis)
  ELSE IF \E f \in Range(getEssentialFiles(analysis.framework)) :
            f \notin disk \cup CreatedFiles(analysis.missingFiles, Len(analysis.missingFiles))
       THEN <<"Project structure validation failed after setup">>
       ELSE << >>

\* C7 (as claimed): whatever the callback does, buildApk returns the result
\* of the run with a callback that does nothing.
C7_CallbackCannotChangeResult ==
  (pc \in Terminal /\ faults = {}) =>
    /\ pc = "returned"
    /\ result.errors = ReferenceErrors
    /\ result.success = (ReferenceErrors = << >>)

\* C8 (as claimed): with a callback given, an invocation that has ended has
\* called it with 100 exactly once, as the last call, and the percentages are
\* strictly increasing milestones out of 10, 30, 70, 100.
C8_TerminalProgress ==
  (pc \in Terminal /\ cb # "none") =>
    /\ Count(progress, 100) = 1
    /\ progress[Len(progress)] = 100
    /\ Range(progress) \subseteq {10, 30, 70, 100}
    /\ \A i \in 1..(Len(progress) - 1) : progress[i] < progress[i + 1]

\* C9: in every returned BuildResult apkPath and apkSize are set exactly when
\* success is true, and a result with success = false has a non-empty errors.
C9_ResultShape ==
  pc = "returned" =>
    /\ (result.apkPath # NoPath) <=> result.success
    /\ (result.apkSize # -1) <=> result.success
    /\ ~result.success => result.errors # << >>

\* a successful result and a failed result, both returned
C9_Witness ==
  pc = "returned" /\ result.success /\ result.apkPath = ApkPath

C9_WitnessFailure ==
  pc = "returned" /\ ~result.success /\ Len(result.errors) = 1 /\ stages = << >>

\* the six framework tags
FrameworkTags ==
  {"react-native", "flutter", "android", "cordova", "generic-mobile", "unknown"}

\* C10: for every file list, the empty one included, detectFramework returns
\* a record whose framework is one of the six tags and whose language and
\* projectType are the ones defined for that tag.
C10_ClassifierTotal ==
  pc # "idle" =>
    /\ detection.framework \in FrameworkTags
    /\ DOMAIN detection = {"framework", "language", "projectType"}
    /\ detection.language \in {"javascript", "dart", "kotlin", "java", "unknown"}
    /\ detection.projectType \in {"hybrid", "native", "unknown"}
    /\ detection.framework = "unknown" <=> detection.projectType = "unknown"

\* the empty file list has been classified
C10_Witness ==
  pc = "analyzed" /\ getAllFiles(disk) = {} /\ detection.framework = "unknown"

\* the walked file list right after the analysis
Listed == getAllFiles(disk)

\* the signals of the decision list
SignalReactNative ==
  /\ \E f \in Listed : Includes(f, <<"package.json">>)
  /\ \/ \E f \in Listed : Includes(f, <<"react-native">>)
     \/ \E f \in Listed : Includes(f, <<"metro.config">>)
SignalFlutter == \E f \in Listed : Includes(f, <<"pubspec.yaml">>)
SignalAndroid ==
  \/ \E f \in Listed : Includes(f, <<"build.gradle">>)
  \/ \E f \in Listed : Includes(f, <<"AndroidManifest.xml">>)
SignalCordova ==
  \E f \in Listed : Includes(f, <<"config.xml">>) /\ Includes(f, <<"www">>)

\* C11: the classification of the walked file list is the ordered decision
\* list, first match winning: react-native signal, else flutter signal, else
\* android signal (kotlin before java before unknown), else cordova signal,
\* else unknown, which analyzeProject turns into generic-mobile; package.json
\* with metro.config.js is react-native, package.json alone is unknown.
C11_DecisionList ==
  (pc = "analyzed" /\ deleted = {}) =>
    /\ SignalReactNative =>
         detection = [framework |-> "react-native", language |-> "javascript",
                      projectType |-> "hybrid"]
    /\ (~SignalReactNative /\ SignalFlutter) =>
         detection = [framework |-> "flutter", language |-> "dart", projectType |-> "hybrid"]
    /\ (~SignalReactNative /\ ~SignalFlutter /\ SignalAndroid) =>
         /\ detection.framework = "android" /\ detection.projectType = "native"
         /\ (\E f \in Listed : EndsWith(f, ".kt")) => detection.language = "kotlin"
         /\ (~(\E f \in Listed : EndsWith(f, ".kt")) /\ \E f \in Listed : EndsWith(f, ".java"))
              => detection.language = "java"
         /\ (\A f \in Listed : ~EndsWith(f, ".kt") /\ ~EndsWith(f, ".java"))
              => detection.language = "unknown"
    /\ (~SignalReactNative /\ ~SignalFlutter /\ ~SignalAndroid /\ SignalCordova) =>
         detection = [framework |-> "cordova", language |-> "javascript",
                      projectType |-> "hybrid"]
    /\ (~SignalReactNative /\ ~SignalFlutter /\ ~SignalAndroid /\ ~SignalCordova) =>
         /\ detection.framework = "unknown"
         /\ analysis.framework = "generic-mobile"
    /\ disk = {PackageJson, MetroConfig} => detection.framework = "react-native"
    /\ disk = {PackageJson} =>
         detection.framework = "unknown" /\ analysis.framework = "generic-mobile"

\* a tree with the react-native and the flutter signal has been classified
C11_Witness ==
  /\ pc = "analyzed" /\ deleted = {}
  /\ SignalReactNative /\ SignalFlutter
  /\ detection.framework = "react-native"

\* package.json without a marker has been classified
C11_WitnessNoMarker ==
  pc = "analyzed" /\ disk = {PackageJson} /\ analysis.framework = "generic-mobile"

\* C12: every Analysis analyzeProject returns, also when the analyzer raised,
\* carries one of the five framework tags and never "unknown"; a
\* generic-mobile Analysis has an empty missingFiles.
C12_NeverUnknown ==
  pc # "idle" =>
    /\ analysis.framework \in {"react-native", "flutter", "android", "cordova", "generic-mobile"}
    /\ analysis.framework = "generic-mobile" => analysis.missingFiles = << >>
    /\ detection.framework = "unknown" => analysis.framework = "generic-mobile"

\* an unclassifiable tree that holds files has been analysed
C12_Witness ==
  /\ pc = "analyzed"
  /\ detection.framework = "unknown"
  /\ getAllFiles(disk) # {}
  /\ analysis.framework = "generic-mobile"

\* the error path: fileExists raised inside a framework analyzer
C12_WitnessErrorPath ==
  /\ pc = "analyzed"
  /\ analysisFault = "fileExists"
  /\ analysis.errors = <<"Analysis failed">>
  /\ analysis.framework # "generic-mobile"

\* the required-file checklist of each framework analyzer
Checklist(framework) ==
  CASE framework = "react-native" -> <<PackageJson, AndroidGradle, AndroidAppGradle>>
    [] framework = "flutter"      -> <<PubspecYaml, AndroidGradle, MainDart>>
    [] framework = "android"      -> <<RootGradle, AppGradle, AppManifest>>
    [] framework = "cordova"      -> <<ConfigXml, WwwIndexHtml>>
    [] OTHER                      -> << >>

\* C13 (as claimed): missingFiles is, in checklist order, exactly the
\* checklist entries for which the walked file list has no file at that
\* relative path.
C13_MissingFilesExact ==
  (pc = "analyzed" /\ deleted = {}) =>
    analysis.missingFiles =
      SelectSeqBy(Checklist(analysis.framework),
                  {r \in Range(Checklist(analysis.framework)) : r \notin Listed})

\* C14 (as claimed): when createMissingFiles has completed, analysing the
\* updated tree again yields an empty missingFiles.
C14_ScaffoldRoundTrip ==
  (pc = "validateProjectStructure" /\ deleted = {}) =>
    analyzeProject(disk, gradle, texts, "none").missingFiles = << >>

\* the app-level gradle file the analyzer of a framework reads
AppGradleOf(framework) ==
  IF framework = "react-native" THEN AndroidAppGradle ELSE AppGradle

\* the analysed tree holds the app-level gradle file of a framework that
\* extracts SDK bounds, the file was read, and neither token matched
NoSdkTokenMatched ==
  /\ pc = "analyzed" /\ deleted = {} /\ analysisFault = "none"
  /\ analysis.framework \in {"react-native", "android"}
  /\ AppGradleOf(analysis.framework) \in disk
  /\ gradle[AppGradleOf(analysis.framework)] = [target |-> -1, min |-> -1]

\* C15 (as claimed): when the build.gradle that is present has no matching
\* SDK token, the Analysis carries targetSdk 33 and minSdk 21 and a
\* diagnostic has been appended to analysis.errors.
C15_DefaultsWithDiagnostic ==
  NoSdkTokenMatched =>
    /\ analysis.projectStats.targetSdk = 33 /\ analysis.projectStats.minSdk = 21
    /\ analysis.buildConfig.targetSdk = 33 /\ analysis.buildConfig.minSdk = 21
    /\ analysis.errors # << >>

\* the buildConfig fields the analyzer of a framework can populate
FrameworkFields(framework) ==
  CASE framework = "react-native" -> {"hasPackageJson", "hasBuildGradle", "targetSdk", "minSdk"}
    [] framework = "flutter"      -> {"hasPubspec", "hasBuildGradle", "targetSdk", "minSdk",
                                      "packageName", "appName", "version"}
    [] framework = "android"      -> {"hasBuildGradle", "hasManifest", "targetSdk", "minSdk"}
    [] framework = "cordova"      -> {"hasConfigXml", "hasWwwFolder", "appName", "version"}
    [] OTHER                      -> {}

\* C16 (as claimed): in every Analysis each buildConfig field of the
\* framework holds a defined value, whatever the extraction found.
C16_BuildConfigPopulated ==
  pc # "idle" =>
    FrameworkFields(analysis.framework) \subseteq DOMAIN analysis.buildConfig

\* the project root holds index.html and nothing else
OnlyIndexHtml ==
  deleted = {} /\ disk \ {ApkPath} = {IndexHtml}

\* C17 (as claimed): analyzeProject followed by buildApk on a root that holds
\* only index.html ends with success = true, an archive of size greater than
\* zero at the output path, and an AndroidManifest.xml entry whose label is
\* the substituted app name.
C17_GenericEndToEnd ==
  (pc \in Terminal /\ OnlyIndexHtml) =>
    /\ pc = "returned"
    /\ result.success
    /\ ApkPath \in disk /\ result.apkSize > 0
    /\ <<"AndroidManifest.xml">> \in archive
    /\ manifest.label = "Mobile App"

\* C18: a returned result with success = true carries the fixed output path
\* build/outputs/apk/release/app-release.apk under the project root, whatever
\* the framework; a file exists at that path and apkSize is its size.
C18_PathAndSize ==
  (pc = "returned" /\ result.success) =>
    /\ result.apkPath = ApkPath
    /\ ApkPath \in disk /\ ApkPath \in written
    /\ result.apkSize = FileSize(archive)
    /\ result.apkSize > 0

\* an android build and a fallback archive, both reported as successes
C18_Witness ==
  /\ pc = "returned" /\ result.success
  /\ analysis.framework = "android"
  /\ result.apkSize = FileSize(FixedEntries \cup IconEntries)

C18_WitnessFallback ==
  /\ pc = "returned" /\ result.success
  /\ "writeZip" \in faults
  /\ result.apkSize = 1

\* C20 (as claimed): no build invocation of any framework, on any path,
\* starts an external command.
C20_NoExternalProcess ==
  spawned = << >>

\* what an invocation leaves below its root when it runs alone on a tree
AloneAnalysis(start) == PairAnalysis(start)
AloneScaffold(start) ==
  IF validateBuildRequirements(AloneAnalysis(start)) # << >> THEN start
  ELSE start \cup CreatedFiles(AloneAnalysis(start).missingFiles,
                               Len(AloneAnalysis(start).missingFiles))
AlonePackages(start) ==
  /\ validateBuildRequirements(AloneAnalysis(start)) = << >>
  /\ validateProjectStructure(AloneScaffold(start), AloneAnalysis(start), FALSE)
AloneTree(start) ==
  IF AlonePackages(start) THEN AloneScaffold(start) \cup {ApkPath} ELSE AloneScaffold(start)
AloneArchive(start) ==
  IF AlonePackages(start)
  THEN FixedEntries \cup IconEntries
       \cup addFrameworkAssets(AloneAnalysis(start).framework, AloneScaffold(start),
                               DirsOf(AloneScaffold(start)),
                               AssetSources(AloneAnalysis(start).framework, AloneScaffold(start)), {})
  ELSE {}

\* C19: two invocations on two distinct roots, under every interleaving of
\* their steps: every directory and file an invocation creates lies below its
\* own root, no root ever holds a file the invocation running alone would not
\* have put there, and when an invocation has returned its root holds the
\* scaffold files and the archive of the run alone.
C19_DisjointRoots ==
  /\ \A n \in 1..Len(pairLog) : pairLog[n].root = ProjectRoot(pairLog[n].by)
  /\ \A i \in Invocations :
       /\ TreeOf(ProjectRoot(i)) \subseteq AloneTree(builds[i].start)
       /\ builds[i].pc = "returned" =>
            /\ TreeOf(ProjectRoot(i)) = AloneTree(builds[i].start)
            /\ builds[i].archive = AloneArchive(builds[i].start)
            /\ builds[i].success = AlonePackages(builds[i].start)
  /\ \A w \in trees : \E i \in Invocations : w[1] = ProjectRoot(i)

\* both invocations have returned after interleaved writes: the second wrote
\* between two writes of the first, and both wrote a scaffold file
C19_Witness ==
  /\ \A i \in Invocations : builds[i].pc = "returned" /\ builds[i].success
  /\ \E a, b, c \in 1..Len(pairLog) :
       /\ a < b /\ b < c
       /\ pairLog[a].by = 1 /\ pairLog[b].by = 2 /\ pairLog[c].by = 1
       /\ pairLog[a].kind = "file" /\ pairLog[b].kind = "file"
       /\ pairLog[a].path # ApkPath /\ pairLog[b].path # ApkPath

\* an uploaded tree with the conventional native Android layout, analysed and
\* built without any file-system fault, callback exception or deletion
ConventionalAndroid ==
  /\ {RootGradle, AppGradle, AppManifest} \subseteq (disk \ written)
  /\ analysis.framework = "android"
  /\ analysisFault = "none" /\ deleted = {} /\ faults = {} /\ thrown = {}

\* C21: a project with the conventional Android layout (build.gradle,
\* app/build.gradle, app/src/main/AndroidManifest.xml) is classified android,
\* passes requirement validation and structure validation, and its build
\* returns with success = true.
C21_AndroidEndToEnd ==
  (ConventionalAndroid /\ pc = "returned") =>
     /\ failedAt = "none"
     /\ result.success
     /\ stages = <<"requirements", "scaffold", "structure", "packaging", "completed">>

\* the last analysis the analyze route answered with carries diagnostics and
\* passes requirement validation
SoftDiagnosticsOnly ==
  /\ history.analysis # NoAnalysis
  /\ history.analysis.errors # << >>
  /\ validateBuildRequirements(history.analysis) = << >>

\* the page has rendered the answer of the routes and has nothing left to do
PageSettled ==
  /\ analyzeReq = "idle" /\ ~client.stale /\ ~client.due /\ client.posts = 0

\* C22: a non-empty analysis.errors does not stop the pipeline: when the
\* analysis of a project carries only soft diagnostics and passes requirement
\* validation, the analyze route leaves the project in status 'analyzed' and
\* the page, once it has rendered that answer, has sent the build request.
C22_SoftDiagnosticsProceed ==
  (SoftDiagnosticsOnly /\ analyzeReq = "idle" /\ history.analyses = 1) =>
     /\ history.builds = 0 => stored.status = "analyzed"
     /\ PageSettled => history.builds > 0

\* C25: the progress callback is not awaited by buildApk; once the build
\* route has responded for a successful build (the only build request, no
\* analyze request since), the stored project has status 'completed' and
\* progress 100, and no callback write has landed after the final status
\* write of its request.
C25_FinalWriteLast ==
  \A b \in BuildRequests :
    buildReqs[b].success =>
      /\ b \notin history.late
      /\ (buildReqs[b].pc = "responded" /\ history.builds = 1 /\ history.analyses = 1) =>
            stored.status = "completed" /\ stored.progress = 100

\* build requests of the page that have been sent and not yet answered
BuildsUnderWay ==
  client.posts + Cardinality({b \in BuildRequests : buildReqs[b].pc \notin {"idle", "responded"}})

\* C26: the page starts at most one build request each time the project
\* enters status 'analyzed': no second POST /build is sent while the first is
\* pending, so at most one build runs for the project at a time.
C26_OneBuildAtATime == BuildsUnderWay <= 1

\* C27: after any sequence of requests, a stored apkPath belongs to a project
\* in status 'completed', and GET /download answers 404 whenever the stored
\* status is 'error' or no build was ever requested.
C27_DownloadOnlyAfterSuccess ==
  stored # NoProject =>
    /\ stored.apkPath # << >> => stored.status = "completed"
    /\ stored.status = "error" => download(stored) = 404
    /\ history.builds = 0 => download(stored) = 404

\* the decision the requirement validator is to take, from the tag and the
\* presence flags alone
RequirementMet(a) ==
  LET on(name) == name \in DOMAIN a.buildConfig /\ a.buildConfig[name] = TRUE IN
  \/ a.framework = "react-native" /\ on("hasPackageJson")
  \/ a.framework = "flutter" /\ on("hasPubspec")
  \/ a.framework = "android" /\ on("hasBuildGradle")
  \/ a.framework = "cordova" /\ on("hasConfigXml")
  \/ a.framework = "generic-mobile"

\* C23: validateBuildRequirements returns no error exactly when the tag is
\* one of the four frameworks with its presence flag set, or generic-mobile;
\* for every other tag, 'unknown' included, it returns the single error
\* 'Unsupported framework'; the files on disk play no part.
C23_RequirementDecision ==
  pc \in {"createMissingFiles", "returned"} =>
    /\ (result.errors = << >>) <=> RequirementMet(analysis)
    /\ (pc = "createMissingFiles") <=> RequirementMet(analysis)
    /\ analysis.framework \notin {"react-native", "flutter", "android", "cordova",
                                   "generic-mobile"}
         => result.errors = <<"Unsupported framework">>
    /\ Len(result.errors) <= 1

\* the validator refused the tag 'unknown' although every marker file exists
\* and every flag is set
C23_Witness ==
  /\ pc = "returned"
  /\ analysis.framework = "unknown"
  /\ disk = MarkerFiles
  /\ \A f \in PresenceFlags : Flag(analysis.buildConfig, f)
  /\ result.errors = <<"Unsupported framework">>

\* the validator accepted a flutter analysis whose flag is set although the
\* directory holds no pubspec.yaml
C23_WitnessFlagOnly ==
  /\ pc = "createMissingFiles"
  /\ analysis.framework = "flutter"
  /\ Flag(analysis.buildConfig, "hasPubspec")
  /\ PubspecYaml \notin disk

\* C24: classification and requirement validation agree: when analyzeProject,
\* hit by no file-system fault, assigns one of the four frameworks from a
\* marker file of the tree, requirement validation passes for the analysis.
C24_ClassifierAndValidatorAgree ==
  (/\ pc = "analyzed" /\ analysisFault = "none" /\ deleted = {}
   /\ analysis.framework \in {"react-native", "flutter", "android", "cordova"})
    => validateBuildRequirements(analysis) = << >>

\* the candidate list of the generic asset step, in its order
GenericOrder == <<IndexHtml, AppJs, MainJs, PackageJson>>

\* the first candidate that exists at the project root, as a set
FirstCandidate(files) ==
  {GenericOrder[i] : i \in {j \in 1..Len(GenericOrder) :
      /\ GenericOrder[j] \in files
      /\ \A k \in 1..(j - 1) : GenericOrder[k] \notin files}}

\* the entries of the archive that the asset step added
AssetEntries == archive \ (FixedEntries \cup IconEntries)

\* C28: for a framework other than flutter, react-native and cordova, the
\* asset step of the main routine, hit by no fault, copies exactly one file
\* into the archive: the first of index.html, app.js, main.js, package.json
\* that exists at the project root; if none exists it adds no asset entry.
C28_GenericFirstMatchOnly ==
  (/\ pc = "getFileStats" /\ faults = {}
   /\ analysis.framework \notin {"flutter", "react-native", "cordova"})
    => AssetEntries = {<<"assets", "/">> \o f : f \in FirstCandidate(disk)}

\* C29: in every archive the main packaging routine wrote, MANIFEST.MF lists
\* the name of each packaged entry outside META-INF: the manifest, the
\* bytecode, the resources, every copied asset and every icon.
C29_SigningManifestComplete ==
  (pc = "getFileStats" /\ "writeZip" \notin faults) =>
    \A e \in archive : e[1] # "META-INF" => e \in generateMetaInf.manifest

\* the directories a file lies in, the root included
Ancestors(f) == DirChain(Dirname(f)) \cup {<< >>}

\* the walk can reach the file: no directory on the way fails to list its
\* files, and none above the file's own directory fails to list its directories
Reachable(f) ==
  /\ Ancestors(f) \cap walk.noFiles = {}
  /\ (Ancestors(f) \ {Dirname(f)}) \cap walk.noDirs = {}

C30_WitnessUnreadable ==
  /\ walk.done
  /\ walk.noFiles = {<<"www">>}
  /\ {IndexHtml, WwwIndexHtml} \subseteq walk.tree
  /\ IndexHtml \in Range(walk.listed)
  /\ WwwIndexHtml \notin Range(walk.listed)

====
